---------------------------- MODULE Spec2Model ----------------------------
(***************************************************************************)
(* A model of the symbolic scalar expression engine of                     *)
(* crates/circuit/src/symbol_expr.rs (SymbolExpr, Symbol, Value, Unary,    *)
(* Binary) and of its wrapper PySymbolExpr (symbol_expr_py.rs).            *)
(*                                                                         *)
(* Numbers.  An i64 is a TLA+ integer (the model's values stay far from    *)
(* the i64 range).  An f64 is an exact rational <<n, d>> with d > 0 and    *)
(* gcd(n, d) = 1, or one of the IEEE specials: <<0, -1>> is -0.0,          *)
(* <<1, 0>> is +inf, <<-1, 0>> is -inf, <<0, 0>> is NaN.  A result that    *)
(* is not rational (a transcendental function away from its exact points)  *)
(* is Irr; an operation of the wrapper whose result holds Irr is outside   *)
(* the model and its action is disabled.  Every rational of the model has  *)
(* a denominator far below 2^52, so |r| < f64::EPSILON holds exactly when  *)
(* r is a zero.                                                            *)
(*                                                                         *)
(* Strings are sequences of one-character strings, compared as Rust        *)
(* compares String (lexicographically by byte).                            *)
(***************************************************************************)
EXTENDS Integers, Sequences, FiniteSets, TLC

\* ------------------------------------------------------------------ text

\* The characters the renderer can emit, in ASCII order.
Ascii ==
  << " ", "(", ")", "*", "+", "-", ".", "/",
     "0", "1", "2", "3", "4", "5", "6", "7", "8", "9",
     "N", "[", "]", "_",
     "a", "b", "c", "d", "e", "f", "g", "h", "i", "j", "k", "l", "m",
     "n", "o", "p", "q", "r", "s", "t", "u", "v", "w", "x", "y", "z" >>

CharSet == { Ascii[i] : i \in 1..Len(Ascii) }

Code == [ c \in CharSet |-> CHOOSE i \in 1..Len(Ascii) : Ascii[i] = c ]

RECURSIVE StrLtFrom(_, _, _)
StrLtFrom(s, t, i) ==
  IF i > Len(t) THEN FALSE
  ELSE IF i > Len(s) THEN TRUE
  ELSE IF Code[s[i]] < Code[t[i]] THEN TRUE
  ELSE IF Code[s[i]] > Code[t[i]] THEN FALSE
  ELSE StrLtFrom(s, t, i + 1)

\* s < t for Rust strings.
StrLt(s, t) == StrLtFrom(s, t, 1)

Digits == << "0", "1", "2", "3", "4", "5", "6", "7", "8", "9" >>

RECURSIVE NatToStr(_)
NatToStr(n) ==
  IF n < 10 THEN << Digits[n + 1] >>
  ELSE NatToStr(n \div 10) \o << Digits[(n % 10) + 1] >>

\* i64::to_string
IntToStr(n) == IF n < 0 THEN << "-" >> \o NatToStr(-n) ELSE NatToStr(n)

\* ------------------------------------------------------------------ f64

AbsInt(n) == IF n < 0 THEN -n ELSE n

RECURSIVE GCD(_, _)
GCD(a, b) == IF b = 0 THEN a ELSE GCD(b, a % b)

NaN == << 0, 0 >>
PosInf == << 1, 0 >>
NegInf == << -1, 0 >>
PosZero == << 0, 1 >>
NegZero == << 0, -1 >>
\* A finite f64 that is no rational of the model (sin(2.0), 2.0 ** 0.5, ...).
Irr == << 0, -2 >>

RIsNaN(r) == r = NaN
RIsIrr(r) == r = Irr
RIsInf(r) == r[2] = 0 /\ r[1] # 0
RIsZero(r) == r[1] = 0 /\ (r[2] = 1 \/ r[2] = -1)
RIsFinite(r) == r[2] > 0 \/ r[2] = -1

\* The rational n/d (d # 0) as an f64: never a negative zero.
RNorm(n, d) ==
  IF n = 0 THEN PosZero
  ELSE LET g == GCD(AbsInt(n), AbsInt(d))
           s == IF d < 0 THEN -1 ELSE 1
       IN << (s * n) \div g, (s * d) \div g >>

\* The sign bit: TRUE for negative numbers, -0.0 and -inf.
RSignBit(r) == r[1] < 0 \/ r = NegZero

\* Numerator and denominator of a finite f64 as a rational.
RNum(r) == r[1]
RDen(r) == IF r[2] = -1 THEN 1 ELSE r[2]

RNeg(r) ==
  IF RIsNaN(r) \/ RIsIrr(r) THEN r
  ELSE IF r = PosZero THEN NegZero
  ELSE IF r = NegZero THEN PosZero
  ELSE << -r[1], r[2] >>

RAdd(a, b) ==
  IF RIsNaN(a) \/ RIsNaN(b) THEN NaN
  ELSE IF RIsInf(a) /\ RIsInf(b) THEN (IF a = b THEN a ELSE NaN)
  ELSE IF RIsInf(a) THEN a
  ELSE IF RIsInf(b) THEN b
  ELSE IF RIsIrr(a) \/ RIsIrr(b) THEN Irr
  ELSE IF RIsZero(a) /\ RIsZero(b) THEN (IF a = NegZero /\ b = NegZero THEN NegZero ELSE PosZero)
  ELSE RNorm(RNum(a) * RDen(b) + RNum(b) * RDen(a), RDen(a) * RDen(b))

RSub(a, b) == RAdd(a, RNeg(b))

RSigned(negative, r) == IF negative THEN RNeg(r) ELSE r

RMul(a, b) ==
  IF RIsNaN(a) \/ RIsNaN(b) THEN NaN
  ELSE IF (RIsInf(a) /\ RIsZero(b)) \/ (RIsZero(a) /\ RIsInf(b)) THEN NaN
  ELSE IF RIsInf(a) \/ RIsInf(b) THEN RSigned(RSignBit(a) # RSignBit(b), PosInf)
  ELSE IF RIsZero(a) \/ RIsZero(b) THEN RSigned(RSignBit(a) # RSignBit(b), PosZero)
  ELSE IF RIsIrr(a) \/ RIsIrr(b) THEN Irr
  ELSE RNorm(RNum(a) * RNum(b), RDen(a) * RDen(b))

RDiv(a, b) ==
  IF RIsNaN(a) \/ RIsNaN(b) THEN NaN
  ELSE IF (RIsInf(a) /\ RIsInf(b)) \/ (RIsZero(a) /\ RIsZero(b)) THEN NaN
  ELSE IF RIsInf(a) \/ RIsZero(b) THEN RSigned(RSignBit(a) # RSignBit(b), PosInf)
  ELSE IF RIsInf(b) \/ RIsZero(a) THEN RSigned(RSignBit(a) # RSignBit(b), PosZero)
  ELSE IF RIsIrr(a) \/ RIsIrr(b) THEN Irr
  ELSE RNorm(RNum(a) * RDen(b), RDen(a) * RNum(b))

\* a < b on f64: false when either is NaN.
RLt(a, b) ==
  IF RIsNaN(a) \/ RIsNaN(b) \/ RIsIrr(a) \/ RIsIrr(b) THEN FALSE
  ELSE IF RIsInf(a) THEN a = NegInf /\ b # NegInf
  ELSE IF RIsInf(b) THEN b = PosInf
  ELSE RNum(a) * RDen(b) < RNum(b) * RDen(a)

RAbs(r) == IF RSignBit(r) THEN RNeg(r) ELSE r

\* r < f64::EPSILON && r > -f64::EPSILON
NearZero(r) == RIsZero(r)

RFromInt(i) == << i, 1 >>

\* f64::floor
RFloor(r) ==
  IF ~(r[2] > 0) THEN r
  ELSE << (r[1] - (r[1] % r[2])) \div r[2], 1 >>

\* `t as i64` for an f64 (saturating at the specials, truncating otherwise).
RToInt(r) ==
  IF r[2] > 0 THEN (IF r[1] >= 0 THEN r[1] \div r[2] ELSE -((-r[1]) \div r[2]))
  ELSE 0

\* The integer-valued test `let d = t.floor() - t; d < EPSILON && d >= -EPSILON`.
RIsWhole(r) == NearZero(RSub(RFloor(r), r))

\* The digits after the decimal point of rem/d, at most k of them.
RECURSIVE FracDigits(_, _, _)
FracDigits(rem, d, k) ==
  IF rem = 0 \/ k = 0 THEN << >>
  ELSE << Digits[((rem * 10) \div d) + 1] >> \o FracDigits((rem * 10) % d, d, k - 1)

\* Digits f64's Display prints after the point for a non-terminating expansion.
MaxFracDigits == 16

\* f64::to_string (Display: no exponent, no trailing ".0").
RealToStr(r) ==
  IF RIsNaN(r) THEN << "N", "a", "N" >>
  ELSE IF RIsIrr(r) THEN << "i", "r", "r" >>
  ELSE IF r = PosInf THEN << "i", "n", "f" >>
  ELSE IF r = NegInf THEN << "-", "i", "n", "f" >>
  ELSE IF r = NegZero THEN << "-", "0" >>
  ELSE LET a == AbsInt(r[1])
           whole == NatToStr(a \div r[2])
           frac == FracDigits(a % r[2], r[2], MaxFracDigits)
       IN (IF r[1] < 0 THEN << "-" >> ELSE << >>)
          \o whole
          \o (IF frac = << >> THEN << >> ELSE << "." >> \o frac)

\* Square root of a non-negative whole number, when it is whole.
RECURSIVE ISqrtFrom(_, _)
ISqrtFrom(n, k) == IF k * k >= n THEN k ELSE ISqrtFrom(n, k + 1)
IsSquare(n) == n >= 0 /\ ISqrtFrom(n, 0) * ISqrtFrom(n, 0) = n

\* f64::sqrt
RSqrt(r) ==
  IF RIsNaN(r) \/ RIsIrr(r) \/ RIsZero(r) \/ r = PosInf THEN r
  ELSE IF RSignBit(r) THEN NaN
  ELSE IF IsSquare(r[1]) /\ IsSquare(r[2]) THEN << ISqrtFrom(r[1], 0), ISqrtFrom(r[2], 0) >>
  ELSE Irr

RECURSIVE IntPow(_, _)
IntPow(b, k) == IF k = 0 THEN 1 ELSE b * IntPow(b, k - 1)

\* The powers the model computes: a larger one is a number outside the model
\* (Irr), as is an i64 power that overflows.
MaxPowBase == 16
MaxPowExp == 6
PowFits(b, k) == AbsInt(b) <= MaxPowBase /\ AbsInt(k) <= MaxPowExp

RIsWholeNumber(r) == r[2] = 1 \/ r[2] = -1

\* f64::powf for a base that is not negative.
RPowf(b, x) ==
  IF RIsZero(x) THEN << 1, 1 >>
  ELSE IF b = << 1, 1 >> THEN b
  ELSE IF RIsNaN(b) \/ RIsNaN(x) THEN NaN
  ELSE IF RIsIrr(b) \/ RIsIrr(x) THEN Irr
  ELSE IF RIsInf(x) THEN
         (IF RLt(b, << 1, 1 >>) THEN (IF x = PosInf THEN PosZero ELSE PosInf)
          ELSE (IF x = PosInf THEN PosInf ELSE PosZero))
  ELSE IF RIsZero(b) THEN (IF RSignBit(x) THEN PosInf ELSE PosZero)
  ELSE IF b = PosInf THEN (IF RSignBit(x) THEN PosZero ELSE PosInf)
  ELSE IF RIsWholeNumber(x) THEN
         (IF ~PowFits(b[1], x[1]) \/ ~PowFits(b[2], x[1]) THEN Irr
          ELSE IF x[1] > 0 THEN << IntPow(b[1], x[1]), IntPow(b[2], x[1]) >>
          ELSE << IntPow(b[2], -x[1]), IntPow(b[1], -x[1]) >>)
  ELSE IF x = << 1, 2 >> THEN RSqrt(b)
  ELSE Irr

\* The transcendental functions of f64, exact at their rational points.
RSin(r) == IF RIsZero(r) \/ RIsNaN(r) \/ RIsIrr(r) THEN r ELSE IF RIsInf(r) THEN NaN ELSE Irr
RCos(r) == IF RIsZero(r) THEN << 1, 1 >> ELSE IF RIsNaN(r) \/ RIsIrr(r) THEN r
           ELSE IF RIsInf(r) THEN NaN ELSE Irr
RTan(r) == RSin(r)
RAsin(r) == IF RIsZero(r) \/ RIsNaN(r) \/ RIsIrr(r) THEN r
            ELSE IF RLt(<< 1, 1 >>, RAbs(r)) THEN NaN ELSE Irr
RAcos(r) == IF r = << 1, 1 >> THEN PosZero ELSE IF RIsNaN(r) \/ RIsIrr(r) THEN r
            ELSE IF RLt(<< 1, 1 >>, RAbs(r)) THEN NaN ELSE Irr
RAtan(r) == IF RIsZero(r) \/ RIsNaN(r) \/ RIsIrr(r) THEN r ELSE Irr
RExp(r) == IF RIsZero(r) THEN << 1, 1 >> ELSE IF RIsNaN(r) \/ RIsIrr(r) \/ r = PosInf THEN r
           ELSE IF r = NegInf THEN PosZero ELSE Irr
RLn(r) == IF r = << 1, 1 >> THEN PosZero ELSE IF RIsNaN(r) \/ RIsIrr(r) \/ r = PosInf THEN r
          ELSE IF RIsZero(r) THEN NegInf ELSE IF RSignBit(r) THEN NaN ELSE Irr

\* ------------------------------------------------------------ Complex64

Cx(re, im) == [ re |-> re, im |-> im ]
CFromReal(r) == Cx(r, PosZero)
CAdd(a, b) == Cx(RAdd(a.re, b.re), RAdd(a.im, b.im))
CSub(a, b) == Cx(RSub(a.re, b.re), RSub(a.im, b.im))
CMul(a, b) == Cx(RSub(RMul(a.re, b.re), RMul(a.im, b.im)),
                 RAdd(RMul(a.re, b.im), RMul(a.im, b.re)))
CNormSqr(a) == RAdd(RMul(a.re, a.re), RMul(a.im, a.im))
CDiv(a, b) == Cx(RDiv(RAdd(RMul(a.re, b.re), RMul(a.im, b.im)), CNormSqr(b)),
                 RDiv(RSub(RMul(a.im, b.re), RMul(a.re, b.im)), CNormSqr(b)))
CNeg(a) == Cx(RNeg(a.re), RNeg(a.im))
\* f64 op Complex64 and Complex64 op f64 (num_complex's real arithmetic).
RCAdd(l, c) == Cx(RAdd(l, c.re), c.im)
RCSub(l, c) == Cx(RSub(l, c.re), RSub(PosZero, c.im))
RCMul(l, c) == Cx(RMul(l, c.re), RMul(l, c.im))
RCDiv(l, c) == Cx(RDiv(RMul(l, c.re), CNormSqr(c)),
                  RSub(PosZero, RDiv(RMul(l, c.im), CNormSqr(c))))
CRAdd(c, r) == Cx(RAdd(c.re, r), c.im)
CRSub(c, r) == Cx(RSub(c.re, r), c.im)
CRMul(c, r) == Cx(RMul(c.re, r), RMul(c.im, r))
CRDiv(c, r) == Cx(RDiv(c.re, r), RDiv(c.im, r))
\* Complex64's transcendental functions and powers are not rational.
CIrr == Cx(Irr, Irr)

\* Complex64::to_string: "{re}+{im}i" or "{re}-{|im|}i".
CToStr(c) ==
  RealToStr(c.re)
  \o (IF RLt(c.im, PosZero) THEN << "-" >> \o RealToStr(RAbs(c.im))
      ELSE << "+" >> \o RealToStr(c.im))
  \o << "i" >>

\* ---------------------------------------------------------------- Value

\* enum Value { Real(f64), Int(i64), Complex(Complex64) }
VReal(r) == [ t |-> "Real", r |-> r ]
VInt(n) == [ t |-> "Int", n |-> n ]
VComplex(c) == [ t |-> "Complex", c |-> c ]

\* `*e as f64` of a Real or an Int.
AsF64(v) == IF v.t = "Int" THEN RFromInt(v.n) ELSE v.r

Value_opt_complex(v) ==
  IF v.t = "Complex" /\ NearZero(v.c.im) THEN VReal(v.c.re) ELSE v

Value_from_complex(c) == IF NearZero(c.im) THEN VReal(c.re) ELSE VComplex(c)

Value_to_string(v) ==
  CASE v.t = "Real" -> RealToStr(v.r)
    [] v.t = "Int" -> IntToStr(v.n)
    [] OTHER ->
         IF NearZero(v.c.re)
         THEN (IF NearZero(v.c.im) THEN << "0" >> ELSE RealToStr(v.c.im) \o << "i" >>)
         ELSE IF NearZero(v.c.im) THEN RealToStr(v.c.re)
         ELSE CToStr(v.c)

Value_as_real(v) ==
  CASE v.t = "Real" -> v.r
    [] v.t = "Int" -> RFromInt(v.n)
    [] OTHER -> v.c.re

Value_abs(v) ==
  CASE v.t = "Real" -> VReal(RAbs(v.r))
    [] v.t = "Int" -> VInt(AbsInt(v.n))
    [] OTHER -> VReal(RSqrt(CNormSqr(v.c)))

Value_sin(v) == IF v.t = "Complex" THEN Value_opt_complex(VComplex(CIrr)) ELSE VReal(RSin(AsF64(v)))
Value_asin(v) == IF v.t = "Complex" THEN Value_opt_complex(VComplex(CIrr)) ELSE VReal(RAsin(AsF64(v)))
Value_cos(v) == IF v.t = "Complex" THEN Value_opt_complex(VComplex(CIrr)) ELSE VReal(RCos(AsF64(v)))
Value_acos(v) == IF v.t = "Complex" THEN Value_opt_complex(VComplex(CIrr)) ELSE VReal(RAcos(AsF64(v)))
Value_tan(v) == IF v.t = "Complex" THEN Value_opt_complex(VComplex(CIrr)) ELSE VReal(RTan(AsF64(v)))
Value_atan(v) == IF v.t = "Complex" THEN Value_opt_complex(VComplex(CIrr)) ELSE VReal(RAtan(AsF64(v)))
Value_exp(v) == IF v.t = "Complex" THEN Value_opt_complex(VComplex(CIrr)) ELSE VReal(RExp(AsF64(v)))
Value_log(v) == IF v.t = "Complex" THEN Value_opt_complex(VComplex(CIrr)) ELSE VReal(RLn(AsF64(v)))

\* The whole-number test of sqrt, pow, rcp and div: Int(t as i64) or Real(t).
IntOrReal(t) == IF RIsWhole(t) THEN VInt(RToInt(t)) ELSE VReal(t)

Value_sqrt(v) ==
  CASE v.t = "Real" -> VReal(RSqrt(v.r))
    [] v.t = "Int" -> IntOrReal(RSqrt(RFromInt(v.n)))
    [] OTHER -> Value_opt_complex(VComplex(CIrr))

Value_pow(v, p) ==
  CASE v.t = "Real" ->
         (CASE p.t = "Complex" -> VComplex(CIrr)
            [] OTHER -> IF RLt(v.r, PosZero) THEN VComplex(CIrr)
                        ELSE VReal(RPowf(v.r, AsF64(p))))
    [] v.t = "Int" ->
         IF v.n < 0 THEN VComplex(CIrr)
         ELSE (CASE p.t = "Real" -> IntOrReal(RPowf(RFromInt(v.n), p.r))
                 [] p.t = "Int" -> IF p.n < 0 THEN VReal(RPowf(RFromInt(v.n), RFromInt(p.n)))
                                   ELSE IF PowFits(v.n, p.n) THEN VInt(IntPow(v.n, p.n))
                                   ELSE VReal(Irr)
                 [] OTHER -> VComplex(CIrr))
    [] OTHER -> Value_opt_complex(VComplex(CIrr))

Value_rcp(v) ==
  CASE v.t = "Real" -> VReal(RDiv(<< 1, 1 >>, v.r))
    [] v.t = "Int" -> IntOrReal(RDiv(<< 1, 1 >>, RFromInt(v.n)))
    [] OTHER -> VComplex(RCDiv(<< 1, 1 >>, v.c))

Value_sign(v) ==
  CASE v.t = "Real" -> IF RLt(PosZero, v.r) THEN VReal(<< 1, 1 >>)
                       ELSE IF RLt(v.r, PosZero) THEN VReal(<< -1, 1 >>)
                       ELSE VReal(PosZero)
    [] v.t = "Int" -> IF v.n > 0 THEN VInt(1) ELSE IF v.n < 0 THEN VInt(-1) ELSE VInt(0)
    [] OTHER -> v

Value_is_zero(v) ==
  CASE v.t = "Real" -> NearZero(v.r)
    [] v.t = "Int" -> v.n = 0
    [] OTHER -> NearZero(v.c.re) /\ NearZero(v.c.im)

Value_is_one(v) ==
  CASE v.t = "Real" -> NearZero(RSub(v.r, << 1, 1 >>))
    [] v.t = "Int" -> v.n = 1
    [] OTHER -> NearZero(RSub(v.c.re, << 1, 1 >>)) /\ NearZero(v.c.im)

Value_is_minus_one(v) ==
  CASE v.t = "Real" -> NearZero(RAdd(v.r, << 1, 1 >>))
    [] v.t = "Int" -> v.n = -1
    [] OTHER -> NearZero(RAdd(v.c.re, << 1, 1 >>)) /\ NearZero(v.c.im)

Value_is_negative(v) ==
  CASE v.t = "Real" -> RLt(v.r, PosZero)
    [] v.t = "Int" -> v.n < 0
    [] OTHER -> \/ (RLt(v.c.re, PosZero) /\ NearZero(v.c.im))
                \/ (RLt(v.c.im, PosZero) /\ NearZero(v.c.re))

\* impl Add for &Value
Value_add(l, r) ==
  Value_opt_complex(
    IF l.t = "Complex" THEN
      (IF r.t = "Complex" THEN VComplex(CAdd(l.c, r.c)) ELSE VComplex(CRAdd(l.c, AsF64(r))))
    ELSE IF r.t = "Complex" THEN VComplex(RCAdd(AsF64(l), r.c))
    ELSE IF l.t = "Int" /\ r.t = "Int" THEN VInt(l.n + r.n)
    ELSE VReal(RAdd(AsF64(l), AsF64(r))))

\* impl Sub for &Value
Value_sub(l, r) ==
  Value_opt_complex(
    IF l.t = "Complex" THEN
      (IF r.t = "Complex" THEN VComplex(CSub(l.c, r.c)) ELSE VComplex(CRSub(l.c, AsF64(r))))
    ELSE IF r.t = "Complex" THEN VComplex(RCSub(AsF64(l), r.c))
    ELSE IF l.t = "Int" /\ r.t = "Int" THEN VInt(l.n - r.n)
    ELSE VReal(RSub(AsF64(l), AsF64(r))))

\* impl Mul for &Value
Value_mul(l, r) ==
  Value_opt_complex(
    IF l.t = "Complex" THEN
      (IF r.t = "Complex" THEN VComplex(CMul(l.c, r.c)) ELSE VComplex(CRMul(l.c, AsF64(r))))
    ELSE IF r.t = "Complex" THEN VComplex(RCMul(AsF64(l), r.c))
    ELSE IF l.t = "Int" /\ r.t = "Int" THEN VInt(l.n * r.n)
    ELSE VReal(RMul(AsF64(l), AsF64(r))))

\* impl PartialEq<f64> for Value
Value_eq_f64(v, r) ==
  CASE v.t = "Real" -> NearZero(RSub(v.r, r))
    [] v.t = "Int" -> NearZero(RSub(RFromInt(v.n), r))
    [] OTHER -> NearZero(RSub(v.c.re, r)) /\ NearZero(v.c.im)

\* impl Div for &Value
Value_div(l, r) ==
  IF l.t = "Int" /\ Value_eq_f64(r, PosZero) THEN VReal(PosInf)
  ELSE Value_opt_complex(
    IF l.t = "Complex" THEN
      (IF r.t = "Complex" THEN VComplex(CDiv(l.c, r.c)) ELSE VComplex(CRDiv(l.c, AsF64(r))))
    ELSE IF r.t = "Complex" THEN VComplex(RCDiv(AsF64(l), r.c))
    ELSE IF l.t = "Int" /\ r.t = "Int" THEN IntOrReal(RDiv(RFromInt(l.n), RFromInt(r.n)))
    ELSE VReal(RDiv(AsF64(l), AsF64(r))))

\* impl Neg for &Value
Value_neg(v) ==
  CASE v.t = "Real" -> VReal(RNeg(v.r))
    [] v.t = "Int" -> VInt(-v.n)
    [] OTHER -> VComplex(CNeg(v.c))

\* impl PartialEq for Value
Value_eq(l, r) ==
  IF l.t = "Int" /\ r.t = "Int" THEN l.n = r.n
  ELSE IF l.t = "Complex" \/ r.t = "Complex" THEN
    LET a == IF l.t = "Complex" THEN l.c ELSE CFromReal(AsF64(l))
        b == IF r.t = "Complex" THEN r.c ELSE CFromReal(AsF64(r))
        d == CSub(a, b)
    IN NearZero(d.re) /\ NearZero(d.im)
  ELSE NearZero(RSub(AsF64(l), AsF64(r)))

\* impl PartialOrd for Value: "Less", "Equal", "Greater" or "None".
Value_partial_cmp(l, r) ==
  IF l.t = "Complex" \/ r.t = "Complex" THEN "None"
  ELSE IF l.t = "Int" /\ r.t = "Int" THEN
    (IF l.n < r.n THEN "Less" ELSE IF l.n > r.n THEN "Greater" ELSE "Equal")
  ELSE LET a == AsF64(l)
           b == AsF64(r)
       IN IF RIsNaN(a) \/ RIsNaN(b) \/ RIsIrr(a) \/ RIsIrr(b) THEN "None"
          ELSE IF RLt(a, b) THEN "Less"
          ELSE IF RLt(b, a) THEN "Greater"
          ELSE "Equal"

\* ----------------------------------------------------------- SymbolExpr

\* Option::None; Some(e) is e itself.
None == [ k |-> "None" ]

\* Some(b) of an Option<bool>.
Some(b) == [ k |-> "Some", val |-> b ]

\* match o { Some(e) => e, None => d }
UnwrapOr(o, d) == IF o = None THEN d ELSE o

\* enum SymbolExpr { Symbol(Symbol), Value(Value), Unary(Arc<Unary>), Binary(Arc<Binary>) }
\* A method of Symbol, Value, Unary or Binary takes its receiver as the
\* SymbolExpr that wraps it.
Symbol(name) == [ k |-> "Symbol", name |-> name ]
Value(v) == [ k |-> "Value", v |-> v ]
Unary(op, expr) == [ k |-> "Unary", op |-> op, expr |-> expr ]
Binary(op, lhs, rhs) == [ k |-> "Binary", op |-> op, lhs |-> lhs, rhs |-> rhs ]

\* abs strips a negation or an inner abs and calls itself on the operand.
RECURSIVE SymbolExpr_abs(_)

\* The methods of SymbolExpr are reached through one dispatcher, call: the
\* model's form of a method call on a SymbolExpr.  SymbolExpr_m(self, a) is
\* self.m(a); the code of m is SymbolExpr_m_body.
RECURSIVE call(_, _, _)
SymbolExpr_to_string(self) == call("to_string", self, None)
SymbolExpr_bind(self, a) == call("bind", self, a)
SymbolExpr_eval(self, a) == call("eval", self, a)
SymbolExpr_expand(self) == call("expand", self, None)
SymbolExpr_is_negative(self) == call("is_negative", self, None)
SymbolExpr_add_opt(self, a) == call("add_opt", self, a)
SymbolExpr_sub_opt(self, a) == call("sub_opt", self, a)
SymbolExpr_mul_opt(self, a) == call("mul_opt", self, a)
SymbolExpr_mul_expand(self, a) == call("mul_expand", self, a)
SymbolExpr_div_opt(self, a) == call("div_opt", self, a)
SymbolExpr_div_expand(self, a) == call("div_expand", self, a)
SymbolExpr_neg_opt(self) == call("neg_opt", self, None)
SymbolExpr_eq(self, a) == call("eq", self, a)
SymbolExpr_partial_cmp(self, a) == call("partial_cmp", self, a)
Symbol_add_opt(self, a) == call("Symbol_add_opt", self, a)
Symbol_sub_opt(self, a) == call("Symbol_sub_opt", self, a)
Symbol_mul_opt(self, a) == call("Symbol_mul_opt", self, a)
Symbol_div_opt(self, a) == call("Symbol_div_opt", self, a)
Value_add_opt(self, a) == call("Value_add_opt", self, a)
Value_sub_opt(self, a) == call("Value_sub_opt", self, a)
Value_mul_opt(self, a) == call("Value_mul_opt", self, a)
Value_div_opt(self, a) == call("Value_div_opt", self, a)
Unary_bind(self, a) == call("Unary_bind", self, a)
Unary_eval(self, a) == call("Unary_eval", self, a)
Unary_add_opt(self, a) == call("Unary_add_opt", self, a)
Unary_sub_opt(self, a) == call("Unary_sub_opt", self, a)
Unary_mul_opt(self, a) == call("Unary_mul_opt", self, a)
Unary_mul_expand(self, a) == call("Unary_mul_expand", self, a)
Unary_div_opt(self, a) == call("Unary_div_opt", self, a)
Unary_div_expand(self, a) == call("Unary_div_expand", self, a)
Binary_bind(self, a) == call("Binary_bind", self, a)
Binary_eval(self, a) == call("Binary_eval", self, a)
Binary_add_opt(self, a) == call("Binary_add_opt", self, a)
Binary_sub_opt(self, a) == call("Binary_sub_opt", self, a)
Binary_mul_opt(self, a) == call("Binary_mul_opt", self, a)
Binary_mul_expand(self, a) == call("Binary_mul_expand", self, a)
Binary_div_opt(self, a) == call("Binary_div_opt", self, a)
Binary_div_expand(self, a) == call("Binary_div_expand", self, a)
SymbolExpr_add(self, a) == call("SymbolExpr_add", self, a)
SymbolExpr_sub(self, a) == call("SymbolExpr_sub", self, a)
SymbolExpr_mul(self, a) == call("SymbolExpr_mul", self, a)
SymbolExpr_div(self, a) == call("SymbolExpr_div", self, a)
_add(self, a) == call("_add", self, a)
_sub(self, a) == call("_sub", self, a)
Unary_to_string(self) == call("Unary_to_string", self, None)
Unary_expand(self) == call("Unary_expand", self, None)
Binary_to_string(self) == call("Binary_to_string", self, None)
Binary_expand(self) == call("Binary_expand", self, None)
SymbolExpr_neg(self) == call("SymbolExpr_neg", self, None)
SymbolExpr_derivative(self, a) == call("derivative", self, a)
Unary_derivative(self, a) == call("Unary_derivative", self, a)
Binary_derivative(self, a) == call("Binary_derivative", self, a)
\* The recursive functions of the parser take the text as receiver.
parse_expr(s) == call("parse_expr", s, None)
parse_muldiv(s) == call("parse_muldiv", s, None)
parse_addsub(s) == call("parse_addsub", s, None)
many0_muldiv(s) == call("many0_muldiv", s, None)
many0_addsub(s) == call("many0_addsub", s, None)

_neg(expr) == Unary("Neg", expr)
_mul(lhs, rhs) == Binary("Mul", lhs, rhs)
_div(lhs, rhs) == Binary("Div", lhs, rhs)
_pow(lhs, rhs) == Binary("Pow", lhs, rhs)

_add_body(lhs, rhs) ==
  IF SymbolExpr_is_negative(rhs)
  THEN Binary("Sub", lhs, UnwrapOr(SymbolExpr_neg_opt(rhs), _neg(rhs)))
  ELSE Binary("Add", lhs, rhs)

_sub_body(lhs, rhs) ==
  IF SymbolExpr_is_negative(rhs)
  THEN Binary("Add", lhs, UnwrapOr(SymbolExpr_neg_opt(rhs), _neg(rhs)))
  ELSE Binary("Sub", lhs, rhs)

SymbolExpr_to_string_body(self) ==
  CASE self.k = "Symbol" -> self.name
    [] self.k = "Value" -> Value_to_string(self.v)
    [] self.k = "Unary" -> Unary_to_string(self)
    [] self.k = "Binary" -> Binary_to_string(self)

\* `maps` is a function from names to values; a name outside its domain is unbound.
Symbol_bind(self, maps) ==
  IF self.name \in DOMAIN maps THEN Value(maps[self.name]) ELSE self

SymbolExpr_bind_body(self, maps) ==
  CASE self.k = "Symbol" -> Symbol_bind(self, maps)
    [] self.k = "Value" -> self
    [] self.k = "Unary" -> Unary_bind(self, maps)
    [] self.k = "Binary" -> Binary_bind(self, maps)

\* SymbolExpr::eval with a symbol taken for the value 0.0.
SymbolExpr_eval_symbol_zero(self, recurse) ==
  CASE self.k = "Symbol" -> VReal(PosZero)
    [] self.k = "Value" -> self.v
    [] self.k = "Unary" -> Unary_eval(self, recurse)
    [] self.k = "Binary" -> Binary_eval(self, recurse)

\* Option<Value>: None or a Value.
SymbolExpr_eval_body(self, recurse) ==
  CASE self.k = "Symbol" -> None
    [] self.k = "Value" -> self.v
    [] self.k = "Unary" -> Unary_eval(self, recurse)
    [] self.k = "Binary" -> Binary_eval(self, recurse)

SymbolExpr_expand_body(self) ==
  CASE self.k = "Symbol" -> self
    [] self.k = "Value" -> self
    [] self.k = "Unary" -> Unary_expand(self)
    [] self.k = "Binary" -> Binary_expand(self)

SymbolExpr_sign(self) == Unary("Sign", self)

SymbolExpr_is_int(self) ==
  LET v == SymbolExpr_eval(self, TRUE)
  IN IF v = None THEN None ELSE Some(v.t = "Int")

SymbolExpr_is_zero(self) ==
  LET v == SymbolExpr_eval(self, TRUE)
  IN IF v = None THEN FALSE ELSE Value_is_zero(v)

SymbolExpr_is_one(self) ==
  LET v == SymbolExpr_eval(self, TRUE)
  IN IF v = None THEN FALSE ELSE Value_is_one(v)

SymbolExpr_is_minus_one(self) ==
  LET v == SymbolExpr_eval(self, TRUE)
  IN IF v = None THEN FALSE ELSE Value_is_minus_one(v)

SymbolExpr_is_negative_body(self) ==
  CASE self.k = "Value" -> Value_is_negative(self.v)
    [] self.k = "Symbol" -> FALSE
    [] self.k = "Unary" ->
         (CASE self.op = "Abs" -> FALSE
            [] self.op = "Neg" -> ~SymbolExpr_is_negative(self.expr)
            [] OTHER -> FALSE)
    [] self.k = "Binary" ->
         (CASE self.op \in { "Mul", "Div" } ->
                 SymbolExpr_is_negative(self.lhs) # SymbolExpr_is_negative(self.rhs)
            [] self.op \in { "Add", "Sub" } -> SymbolExpr_is_negative(self.lhs)
            [] OTHER -> FALSE)

SymbolExpr_abs(self) ==
  CASE self.k = "Value" -> Value(Value_abs(self.v))
    [] self.k = "Unary" /\ self.op \in { "Abs", "Neg" } -> SymbolExpr_abs(self.expr)
    [] OTHER -> Unary("Abs", self)

SymbolExpr_sin(self) == IF self.k = "Value" THEN Value(Value_sin(self.v)) ELSE Unary("Sin", self)
SymbolExpr_asin(self) == IF self.k = "Value" THEN Value(Value_asin(self.v)) ELSE Unary("Asin", self)
SymbolExpr_cos(self) == IF self.k = "Value" THEN Value(Value_cos(self.v)) ELSE Unary("Cos", self)
SymbolExpr_acos(self) == IF self.k = "Value" THEN Value(Value_acos(self.v)) ELSE Unary("Acos", self)
SymbolExpr_tan(self) == IF self.k = "Value" THEN Value(Value_tan(self.v)) ELSE Unary("Tan", self)
SymbolExpr_atan(self) == IF self.k = "Value" THEN Value(Value_atan(self.v)) ELSE Unary("Atan", self)
SymbolExpr_exp(self) == IF self.k = "Value" THEN Value(Value_exp(self.v)) ELSE Unary("Exp", self)
SymbolExpr_log(self) == IF self.k = "Value" THEN Value(Value_log(self.v)) ELSE Unary("Log", self)

SymbolExpr_pow(self, rhs) ==
  IF self.k = "Value" /\ rhs.k = "Value" THEN Value(Value_pow(self.v, rhs.v))
  ELSE Binary("Pow", self, rhs)

\* `rhs < self` of the sorting rule: partial_cmp is Some(Less).
SymbolExpr_lt(lhs, rhs) == SymbolExpr_partial_cmp(lhs, rhs) = "Less"

\* The right operands the sorting rule compares: anything but a sum or a difference.
SwapCandidate(rhs) == rhs.k # "Binary" \/ rhs.op \in { "Mul", "Div", "Pow" }

SymbolExpr_add_opt_body(self, rhs) ==
  IF SymbolExpr_is_zero(self) THEN rhs
  ELSE IF SymbolExpr_is_zero(rhs) THEN self
  ELSE IF rhs.k = "Unary" /\ rhs.op = "Neg" THEN SymbolExpr_sub_opt(self, rhs.expr)
  ELSE CASE self.k = "Value" -> Value_add_opt(self, rhs)
         [] self.k = "Symbol" -> Symbol_add_opt(self, rhs)
         [] self.k = "Unary" ->
              LET opt == Unary_add_opt(self, rhs)
              IN IF opt # None THEN opt
                 ELSE IF SwapCandidate(rhs) /\ SymbolExpr_lt(rhs, self) THEN _add(rhs, self)
                 ELSE None
         [] self.k = "Binary" ->
              LET opt == Binary_add_opt(self, rhs)
              IN IF opt # None THEN opt
                 ELSE IF self.op \in { "Mul", "Div", "Pow" }
                         /\ SwapCandidate(rhs) /\ SymbolExpr_lt(rhs, self)
                 THEN _add(rhs, self)
                 ELSE None

SymbolExpr_sub_opt_body(self, rhs) ==
  IF SymbolExpr_is_zero(self) THEN _neg(rhs)
  ELSE IF SymbolExpr_is_zero(rhs) THEN self
  ELSE IF rhs.k = "Unary" /\ rhs.op = "Neg" THEN SymbolExpr_add_opt(self, rhs.expr)
  ELSE CASE self.k = "Value" -> Value_sub_opt(self, rhs)
         [] self.k = "Symbol" -> Symbol_sub_opt(self, rhs)
         [] self.k = "Unary" ->
              LET opt == Unary_sub_opt(self, rhs)
              IN IF opt # None THEN opt
                 ELSE IF SwapCandidate(rhs) /\ SymbolExpr_lt(rhs, self)
                 THEN _add(UnwrapOr(SymbolExpr_neg_opt(rhs), _neg(rhs)), self)
                 ELSE None
         [] self.k = "Binary" ->
              LET opt == Binary_sub_opt(self, rhs)
              IN IF opt # None THEN opt
                 ELSE IF self.op \in { "Mul", "Div", "Pow" }
                         /\ SwapCandidate(rhs) /\ SymbolExpr_lt(rhs, self)
                 THEN _add(UnwrapOr(SymbolExpr_neg_opt(rhs), _neg(rhs)), self)
                 ELSE None

SymbolExpr_mul_opt_body(self, rhs) ==
  IF SymbolExpr_is_zero(self) THEN self
  ELSE IF SymbolExpr_is_zero(rhs) THEN rhs
  ELSE IF SymbolExpr_is_one(self) THEN rhs
  ELSE IF SymbolExpr_is_one(rhs) THEN self
  ELSE IF SymbolExpr_is_minus_one(self) THEN UnwrapOr(SymbolExpr_neg_opt(rhs), _neg(rhs))
  ELSE IF SymbolExpr_is_minus_one(rhs) THEN UnwrapOr(SymbolExpr_neg_opt(self), _neg(self))
  ELSE IF rhs.k \in { "Value", "Symbol" } /\ self.k = "Unary"
       THEN UnwrapOr(SymbolExpr_mul_opt(rhs, self), _mul(rhs, self))
  ELSE CASE self.k = "Unary" -> Unary_mul_opt(self, rhs)
         [] self.k = "Binary" -> Binary_mul_opt(self, rhs)
         [] self.k = "Value" -> Value_mul_opt(self, rhs)
         [] self.k = "Symbol" -> Symbol_mul_opt(self, rhs)

SymbolExpr_mul_expand_body(self, rhs) ==
  IF rhs.k = "Binary" /\ rhs.op \in { "Add", "Sub" } THEN
    LET el == UnwrapOr(SymbolExpr_mul_expand(self, rhs.lhs),
                       UnwrapOr(SymbolExpr_mul_opt(self, rhs.lhs), _mul(self, rhs.lhs)))
        er == UnwrapOr(SymbolExpr_mul_expand(self, rhs.rhs),
                       UnwrapOr(SymbolExpr_mul_opt(self, rhs.rhs), _mul(self, rhs.rhs)))
    IN IF rhs.op = "Sub" THEN UnwrapOr(SymbolExpr_sub_opt(el, er), _sub(el, er))
       ELSE UnwrapOr(SymbolExpr_add_opt(el, er), _add(el, er))
  ELSE IF rhs.k = "Binary" /\ rhs.op = "Mul" THEN
    LET e == SymbolExpr_mul_expand(self, rhs.lhs)
    IN IF e # None THEN UnwrapOr(SymbolExpr_mul_expand(e, rhs.rhs), _mul(e, rhs.rhs))
       ELSE LET e2 == SymbolExpr_mul_expand(self, rhs.rhs)
            IN IF e2 # None THEN _mul(e2, rhs.lhs) ELSE None
  ELSE IF rhs.k = "Binary" /\ rhs.op = "Div" THEN
    LET e == SymbolExpr_mul_expand(self, rhs.lhs)
    IN IF e # None THEN UnwrapOr(SymbolExpr_mul_expand(e, rhs.rhs), _mul(e, rhs.rhs))
       ELSE LET e2 == SymbolExpr_div_expand(self, rhs.rhs)
            IN IF e2 # None THEN _div(e2, rhs.lhs) ELSE None
  ELSE IF rhs.k = "Unary" /\ rhs.op = "Neg" THEN
    LET e == SymbolExpr_mul_expand(self, rhs.expr)
    IN IF e # None THEN UnwrapOr(SymbolExpr_neg_opt(e), _neg(e))
       ELSE LET e2 == SymbolExpr_mul_opt(self, rhs.expr)
            IN IF e2 # None THEN UnwrapOr(SymbolExpr_neg_opt(e2), _neg(e2))
               ELSE _neg(_mul(self, rhs.expr))
  ELSE CASE self.k = "Unary" -> Unary_mul_expand(self, rhs)
         [] self.k = "Binary" -> Binary_mul_expand(self, rhs)
         [] OTHER -> None

SymbolExpr_div_opt_body(self, rhs) ==
  IF SymbolExpr_is_zero(self) THEN self
  ELSE IF SymbolExpr_is_zero(rhs) THEN Value(VReal(PosInf))
  ELSE IF SymbolExpr_is_zero(rhs) THEN self
  ELSE IF SymbolExpr_is_minus_one(rhs) THEN UnwrapOr(SymbolExpr_neg_opt(self), _neg(self))
  ELSE IF SymbolExpr_eq(self, rhs) THEN
    LET l_is_int == UnwrapOr(SymbolExpr_is_int(self), Some(FALSE)).val
        r_is_int == UnwrapOr(SymbolExpr_is_int(rhs), Some(FALSE)).val
    IN IF l_is_int \/ r_is_int THEN Value(VInt(1)) ELSE Value(VReal(<< 1, 1 >>))
  ELSE CASE self.k = "Unary" -> Unary_div_opt(self, rhs)
         [] self.k = "Binary" -> Binary_div_opt(self, rhs)
         [] self.k = "Value" -> Value_div_opt(self, rhs)
         [] self.k = "Symbol" -> Symbol_div_opt(self, rhs)

SymbolExpr_div_expand_body(self, rhs) ==
  CASE self.k = "Unary" -> Unary_div_expand(self, rhs)
    [] self.k = "Binary" -> Binary_div_expand(self, rhs)
    [] OTHER -> SymbolExpr_div_opt(self, rhs)

SymbolExpr_neg_opt_body(self) ==
  CASE self.k = "Value" -> Value(Value_neg(self.v))
    [] self.k = "Unary" -> IF self.op = "Neg" THEN self.expr ELSE None
    [] self.k = "Binary" ->
         LET ln == SymbolExpr_neg_opt(self.lhs)
             rn == SymbolExpr_neg_opt(self.rhs)
         IN CASE self.op = "Add" ->
                   IF ln # None
                   THEN (IF rn # None THEN _add(ln, rn) ELSE _sub(ln, self.rhs))
                   ELSE (IF rn # None THEN _add(_neg(self.lhs), rn)
                         ELSE _sub(_neg(self.lhs), self.rhs))
              [] self.op = "Sub" ->
                   IF ln # None THEN _add(ln, self.rhs) ELSE _add(_neg(self.lhs), self.rhs)
              [] self.op = "Mul" ->
                   IF ln # None THEN _mul(ln, self.rhs)
                   ELSE IF rn # None THEN _mul(self.lhs, rn) ELSE None
              [] self.op = "Div" ->
                   IF ln # None THEN _div(ln, self.rhs)
                   ELSE IF rn # None THEN _div(self.lhs, rn) ELSE None
              [] OTHER -> None
    [] OTHER -> None

\* impl Add, Sub, Mul, Div, Neg for &SymbolExpr
SymbolExpr_add_body(self, rhs) == UnwrapOr(SymbolExpr_add_opt(self, rhs), _add(self, rhs))
SymbolExpr_sub_body(self, rhs) == UnwrapOr(SymbolExpr_sub_opt(self, rhs), _sub(self, rhs))
SymbolExpr_mul_body(self, rhs) == UnwrapOr(SymbolExpr_mul_opt(self, rhs), _mul(self, rhs))
SymbolExpr_div_body(self, rhs) == UnwrapOr(SymbolExpr_div_opt(self, rhs), _div(self, rhs))
SymbolExpr_neg_body(self) == UnwrapOr(SymbolExpr_neg_opt(self), _neg(self))

\* impl PartialEq for SymbolExpr
SymbolExpr_eq_body(self, rexpr) ==
  LET IsZeroValue(t) == t.k = "Value" /\ Value_is_zero(t.v)
  IN CASE self.k = "Symbol" /\ rexpr.k = "Symbol" -> self.name = rexpr.name
       [] self.k = "Value" /\ rexpr.k = "Value" -> Value_eq(self.v, rexpr.v)
       [] self.k \in { "Binary", "Unary" } /\ rexpr.k \in { "Binary", "Unary" } ->
            IsZeroValue(SymbolExpr_sub(SymbolExpr_expand(self), SymbolExpr_expand(rexpr)))
       [] self.k = "Binary" /\ rexpr.k \in { "Symbol", "Value" } ->
            IsZeroValue(SymbolExpr_sub(SymbolExpr_expand(self), rexpr))
       [] self.k \in { "Symbol", "Value" } /\ rexpr.k = "Binary" ->
            IsZeroValue(SymbolExpr_sub(self, SymbolExpr_expand(rexpr)))
       [] OTHER -> FALSE

\* String::partial_cmp
StrCmp(s, t) == IF StrLt(s, t) THEN "Less" ELSE IF StrLt(t, s) THEN "Greater" ELSE "Equal"

\* A comparator that orders by node kind alone where the kinds differ.
SymbolExpr_partial_cmp_by_kind(self, rhs) ==
  LET Kind(e) == CASE e.k = "Value" -> 0 [] e.k = "Symbol" -> 1
                   [] e.k = "Unary" -> 2 [] OTHER -> 3
  IN CASE Kind(self) < Kind(rhs) -> "Less"
       [] Kind(self) > Kind(rhs) -> "Greater"
       [] self.k = "Value" -> Value_partial_cmp(self.v, rhs.v)
       [] self.k = "Symbol" -> StrCmp(self.name, rhs.name)
       [] self.k = "Unary" -> SymbolExpr_partial_cmp(self.expr, rhs.expr)
       [] OTHER -> "Equal"

\* impl PartialOrd for SymbolExpr: "Less", "Equal", "Greater" or "None".
SymbolExpr_partial_cmp_body(self, rhs) ==
  CASE self.k = "Value" ->
         IF rhs.k = "Value" THEN Value_partial_cmp(self.v, rhs.v) ELSE "Less"
    [] self.k = "Symbol" ->
         (CASE rhs.k = "Value" -> "Greater"
            [] rhs.k = "Symbol" -> StrCmp(self.name, rhs.name)
            [] rhs.k = "Unary" -> SymbolExpr_partial_cmp(self, rhs.expr)
            [] OTHER -> "Less")
    [] self.k = "Unary" ->
         (CASE rhs.k = "Value" -> "Greater"
            [] rhs.k = "Unary" -> SymbolExpr_partial_cmp(self.expr, rhs.expr)
            [] OTHER -> SymbolExpr_partial_cmp(self.expr, rhs))
    [] self.k = "Binary" ->
         (CASE rhs.k \in { "Value", "Symbol" } ->
                 IF self.op \in { "Mul", "Div", "Pow" } THEN "Greater" ELSE "Equal"
            [] rhs.k = "Unary" -> SymbolExpr_partial_cmp(self, rhs.expr)
            [] OTHER ->
                 LET ls == IF self.lhs.k = "Value" THEN SymbolExpr_to_string(self.rhs)
                           ELSE Binary_to_string(self)
                     rs == IF rhs.lhs.k = "Value" THEN SymbolExpr_to_string(rhs.rhs)
                           ELSE Binary_to_string(rhs)
                 IN IF StrLt(ls, rs) /\ Len(rs) > Len(ls) THEN "Less"
                    ELSE IF StrLt(rs, ls) /\ Len(rs) < Len(ls) THEN "Greater"
                    ELSE "Equal")

\* --------------------------------------------------------------- Symbol

Symbol_add_opt_body(self, rhs) ==
  CASE rhs.k = "Value" -> _add(rhs, self)
    [] rhs.k = "Symbol" ->
         IF rhs.name = self.name THEN _mul(Value(VInt(2)), self)
         ELSE IF StrLt(rhs.name, self.name) THEN _add(rhs, self)
         ELSE None
    [] rhs.k = "Unary" -> None
    [] rhs.k = "Binary" ->
         (CASE rhs.op = "Add" ->
                 LET rl == Symbol_add_opt(self, rhs.lhs)
                 IN IF rl # None THEN UnwrapOr(SymbolExpr_add_opt(rl, rhs.rhs), _add(rl, rhs.rhs))
                    ELSE LET rr == Symbol_add_opt(self, rhs.rhs)
                         IN IF rr # None
                            THEN UnwrapOr(SymbolExpr_add_opt(rr, rhs.lhs), _add(rr, rhs.lhs))
                            ELSE None
            [] rhs.op = "Sub" ->
                 LET rl == Symbol_add_opt(self, rhs.lhs)
                 IN IF rl # None THEN UnwrapOr(SymbolExpr_sub_opt(rl, rhs.rhs), _sub(rl, rhs.rhs))
                    ELSE LET rr == Symbol_sub_opt(self, rhs.rhs)
                         IN IF rr # None
                            THEN UnwrapOr(SymbolExpr_add_opt(rr, rhs.lhs), _add(rr, rhs.lhs))
                            ELSE None
            [] OTHER -> None)

Symbol_sub_opt_body(self, rhs) ==
  CASE rhs.k = "Value" -> _add(Value(Value_neg(rhs.v)), self)
    [] rhs.k = "Symbol" ->
         IF rhs.name = self.name THEN Value(VInt(0))
         ELSE IF StrLt(rhs.name, self.name) THEN _add(_neg(rhs), self)
         ELSE None
    [] rhs.k = "Unary" -> None
    [] rhs.k = "Binary" ->
         (CASE rhs.op = "Add" ->
                 LET rl == Symbol_sub_opt(self, rhs.lhs)
                 IN IF rl # None THEN UnwrapOr(SymbolExpr_sub_opt(rl, rhs.rhs), _sub(rl, rhs.rhs))
                    ELSE LET rr == Symbol_sub_opt(self, rhs.rhs)
                         IN IF rr # None
                            THEN UnwrapOr(SymbolExpr_sub_opt(rr, rhs.lhs), _sub(rr, rhs.lhs))
                            ELSE None
            [] rhs.op = "Sub" ->
                 LET rl == Symbol_sub_opt(self, rhs.lhs)
                 IN IF rl # None THEN UnwrapOr(SymbolExpr_add_opt(rl, rhs.rhs), _add(rl, rhs.rhs))
                    ELSE LET rr == Symbol_add_opt(self, rhs.rhs)
                         IN IF rr # None
                            THEN UnwrapOr(SymbolExpr_sub_opt(rr, rhs.lhs), _sub(rr, rhs.lhs))
                            ELSE None
            [] OTHER -> None)

Symbol_mul_opt_body(self, rhs) ==
  CASE rhs.k = "Value" -> _mul(rhs, self)
    [] rhs.k = "Symbol" -> IF StrLt(rhs.name, self.name) THEN _mul(rhs, self) ELSE None
    [] rhs.k = "Unary" /\ rhs.op = "Neg" ->
         (CASE rhs.expr.k = "Value" -> _mul(Value(Value_neg(rhs.expr.v)), self)
            [] rhs.expr.k = "Symbol" ->
                 IF StrLt(rhs.expr.name, self.name) THEN _neg(_mul(rhs.expr, self))
                 ELSE _neg(_mul(self, rhs.expr))
            [] rhs.expr.k = "Binary" ->
                 LET e == Symbol_mul_opt(self, rhs.expr)
                 IN IF e # None THEN UnwrapOr(SymbolExpr_neg_opt(e), _neg(e)) ELSE None
            [] OTHER -> None)
    [] OTHER -> None

Symbol_div_opt_body(self, rhs) ==
  IF rhs.k = "Value" THEN _mul(Value(Value_rcp(rhs.v)), self) ELSE None

\* ------------------------------------------------- Value (heuristics)

Value_add_opt_body(self, rhs) ==
  CASE rhs.k = "Value" -> Value(Value_add(self.v, rhs.v))
    [] rhs.k = "Unary" -> None
    [] rhs.k = "Binary" ->
         (CASE rhs.op = "Add" ->
                 LET rl == Value_add_opt(self, rhs.lhs)
                 IN IF rl # None THEN UnwrapOr(SymbolExpr_add_opt(rl, rhs.rhs), _add(rl, rhs.rhs))
                    ELSE LET rr == Value_add_opt(self, rhs.rhs)
                         IN IF rr # None
                            THEN UnwrapOr(SymbolExpr_add_opt(rr, rhs.lhs), _add(rr, rhs.lhs))
                            ELSE None
            [] rhs.op = "Sub" ->
                 LET rl == Value_add_opt(self, rhs.lhs)
                 IN IF rl # None THEN UnwrapOr(SymbolExpr_sub_opt(rl, rhs.rhs), _sub(rl, rhs.rhs))
                    ELSE LET rr == Value_sub_opt(self, rhs.rhs)
                         IN IF rr # None
                            THEN UnwrapOr(SymbolExpr_add_opt(rr, rhs.lhs), _add(rr, rhs.lhs))
                            ELSE None
            [] OTHER -> None)
    [] OTHER -> None

Value_sub_opt_body(self, rhs) ==
  CASE rhs.k = "Value" -> Value(Value_sub(self.v, rhs.v))
    [] rhs.k = "Unary" -> None
    [] rhs.k = "Binary" ->
         (CASE rhs.op = "Add" ->
                 LET rl == Value_sub_opt(self, rhs.lhs)
                 IN IF rl # None THEN UnwrapOr(SymbolExpr_sub_opt(rl, rhs.rhs), _sub(rl, rhs.rhs))
                    ELSE LET rr == Value_sub_opt(self, rhs.rhs)
                         IN IF rr # None
                            THEN UnwrapOr(SymbolExpr_sub_opt(rr, rhs.lhs), _sub(rr, rhs.lhs))
                            ELSE None
            [] rhs.op = "Sub" ->
                 LET rl == Value_sub_opt(self, rhs.lhs)
                 IN IF rl # None THEN UnwrapOr(SymbolExpr_add_opt(rl, rhs.rhs), _add(rl, rhs.rhs))
                    ELSE LET rr == Value_add_opt(self, rhs.rhs)
                         IN IF rr # None
                            THEN UnwrapOr(SymbolExpr_sub_opt(rr, rhs.lhs), _sub(rr, rhs.lhs))
                            ELSE None
            [] OTHER -> None)
    [] OTHER -> None

Value_mul_opt_body(self, rhs) ==
  CASE rhs.k = "Value" -> Value(Value_mul(self.v, rhs.v))
    [] rhs.k = "Unary" ->
         IF rhs.op = "Neg"
         THEN LET l == Value(Value_neg(self.v))
              IN UnwrapOr(SymbolExpr_mul_opt(l, rhs.expr), _mul(l, rhs.expr))
         ELSE None
    [] rhs.k = "Binary" ->
         (CASE rhs.op = "Mul" ->
                 LET e == Value_mul_opt(self, rhs.lhs)
                 IN IF e # None THEN UnwrapOr(SymbolExpr_mul_opt(e, rhs.rhs), _mul(e, rhs.rhs))
                    ELSE LET e2 == Value_mul_opt(self, rhs.rhs)
                         IN IF e2 # None THEN _mul(e2, rhs.lhs) ELSE None
            [] rhs.op = "Div" ->
                 LET e == Value_mul_opt(self, rhs.lhs)
                 IN IF e # None THEN _div(e, rhs.rhs)
                    ELSE LET e2 == Value_div_opt(self, rhs.rhs)
                         IN IF e2 # None THEN _mul(e2, rhs.lhs) ELSE None
            [] OTHER -> None)
    [] OTHER -> None

Value_div_opt_body(self, rhs) ==
  CASE rhs.k = "Value" -> Value(Value_div(self.v, rhs.v))
    [] rhs.k = "Unary" ->
         IF rhs.op = "Neg"
         THEN LET e == Value_div_opt(self, rhs.expr)
              IN IF e # None THEN _neg(e) ELSE None
         ELSE None
    [] rhs.k = "Binary" ->
         IF rhs.lhs.k = "Value" THEN
           (CASE rhs.op = "Mul" -> _div(Value(Value_div(self.v, rhs.lhs.v)), rhs.rhs)
              [] rhs.op = "Div" -> _mul(Value(Value_div(self.v, rhs.lhs.v)), rhs.rhs)
              [] OTHER -> None)
         ELSE IF rhs.rhs.k = "Value" THEN
           (CASE rhs.op = "Mul" -> _div(Value(Value_div(self.v, rhs.rhs.v)), rhs.lhs)
              [] rhs.op = "Div" -> _div(Value(Value_mul(self.v, rhs.rhs.v)), rhs.lhs)
              [] OTHER -> None)
         ELSE None
    [] OTHER -> None

\* ---------------------------------------------------------------- Unary

UnaryName(op) ==
  CASE op = "Abs" -> << "a", "b", "s" >>
    [] op = "Sin" -> << "s", "i", "n" >>
    [] op = "Asin" -> << "a", "s", "i", "n" >>
    [] op = "Cos" -> << "c", "o", "s" >>
    [] op = "Acos" -> << "a", "c", "o", "s" >>
    [] op = "Tan" -> << "t", "a", "n" >>
    [] op = "Atan" -> << "a", "t", "a", "n" >>
    [] op = "Exp" -> << "e", "x", "p" >>
    [] op = "Log" -> << "l", "o", "g" >>
    [] op = "Sign" -> << "s", "i", "g", "n" >>

Unary_to_string_body(self) ==
  LET s == SymbolExpr_to_string(self.expr)
  IN IF self.op = "Neg" THEN
       (CASE self.expr.k = "Value" -> Value_to_string(Value_neg(self.expr.v))
          [] self.expr.k = "Binary" /\ self.expr.op \in { "Add", "Sub" } ->
               << "-", "(" >> \o s \o << ")" >>
          [] OTHER -> << "-" >> \o s)
     ELSE UnaryName(self.op) \o << "(" >> \o s \o << ")" >>

Unary_bind_body(self, maps) ==
  LET new_expr == Unary(self.op, SymbolExpr_bind(self.expr, maps))
      v == Unary_eval(new_expr, FALSE)
  IN IF v # None THEN Value(v) ELSE new_expr

Unary_eval_body(self, recurse) ==
  LET val == IF recurse THEN SymbolExpr_eval(self.expr, recurse)
             ELSE IF self.expr.k = "Value" THEN self.expr.v
             ELSE None
      ret == CASE self.op = "Abs" -> Value_abs(val)
               [] self.op = "Neg" -> Value_neg(val)
               [] self.op = "Sin" -> Value_sin(val)
               [] self.op = "Asin" -> Value_asin(val)
               [] self.op = "Cos" -> Value_cos(val)
               [] self.op = "Acos" -> Value_acos(val)
               [] self.op = "Tan" -> Value_tan(val)
               [] self.op = "Atan" -> Value_atan(val)
               [] self.op = "Exp" -> Value_exp(val)
               [] self.op = "Log" -> Value_log(val)
               [] self.op = "Sign" -> Value_sign(val)
  IN IF val = None THEN None ELSE Value_opt_complex(ret)

Unary_expand_body(self) ==
  LET ex == SymbolExpr_expand(self.expr)
  IN IF self.op = "Neg" THEN UnwrapOr(SymbolExpr_neg_opt(ex), _neg(ex))
     ELSE Unary(self.op, ex)

Unary_add_opt_body(self, rhs) ==
  CASE rhs.k = "Value" ->
         IF self.op = "Neg" THEN
           (IF self.expr.k = "Value" THEN Value(Value_sub(rhs.v, self.expr.v))
            ELSE UnwrapOr(SymbolExpr_sub_opt(rhs, self.expr), _sub(rhs, self.expr)))
         ELSE _add(rhs, self)
    [] rhs.k = "Symbol" ->
         IF self.op = "Neg" THEN
           LET e == SymbolExpr_sub_opt(self.expr, rhs)
           IN IF e # None THEN UnwrapOr(SymbolExpr_neg_opt(e), _neg(e)) ELSE None
         ELSE _add(rhs, self)
    [] rhs.k = "Binary" ->
         (CASE rhs.op = "Add" ->
                 LET rl == Unary_add_opt(self, rhs.lhs)
                 IN IF rl # None THEN UnwrapOr(SymbolExpr_add_opt(rl, rhs.rhs), _add(rl, rhs.rhs))
                    ELSE LET rr == Unary_add_opt(self, rhs.rhs)
                         IN IF rr # None
                            THEN UnwrapOr(SymbolExpr_add_opt(rr, rhs.lhs), _add(rr, rhs.lhs))
                            ELSE None
            [] rhs.op = "Sub" ->
                 LET rl == Unary_add_opt(self, rhs.lhs)
                 IN IF rl # None THEN UnwrapOr(SymbolExpr_sub_opt(rl, rhs.rhs), _sub(rl, rhs.rhs))
                    ELSE LET rr == Unary_sub_opt(self, rhs.rhs)
                         IN IF rr # None
                            THEN UnwrapOr(SymbolExpr_add_opt(rr, rhs.lhs), _add(rr, rhs.lhs))
                            ELSE None
            [] OTHER -> None)
    [] OTHER -> None

Unary_sub_opt_body(self, rhs) ==
  CASE rhs.k = "Value" -> Unary_add_opt(self, Value(Value_neg(rhs.v)))
    [] rhs.k = "Symbol" ->
         IF self.op = "Neg" THEN
           LET e == SymbolExpr_add_opt(self.expr, rhs)
           IN IF e # None THEN UnwrapOr(SymbolExpr_neg_opt(e), _neg(e)) ELSE None
         ELSE None
    [] rhs.k = "Binary" ->
         (CASE rhs.op = "Add" ->
                 LET rl == Unary_sub_opt(self, rhs.lhs)
                 IN IF rl # None THEN UnwrapOr(SymbolExpr_sub_opt(rl, rhs.rhs), _sub(rl, rhs.rhs))
                    ELSE LET rr == Unary_sub_opt(self, rhs.rhs)
                         IN IF rr # None
                            THEN UnwrapOr(SymbolExpr_sub_opt(rr, rhs.lhs), _sub(rr, rhs.lhs))
                            ELSE None
            [] rhs.op = "Sub" ->
                 LET rl == Unary_sub_opt(self, rhs.lhs)
                 IN IF rl # None THEN UnwrapOr(SymbolExpr_add_opt(rl, rhs.rhs), _add(rl, rhs.rhs))
                    ELSE LET rr == Unary_add_opt(self, rhs.rhs)
                         IN IF rr # None
                            THEN UnwrapOr(SymbolExpr_sub_opt(rr, rhs.lhs), _sub(rr, rhs.lhs))
                            ELSE None
            [] OTHER -> None)
    [] OTHER -> None

Unary_mul_opt_body(self, rhs) ==
  CASE self.op = "Neg" ->
         LET e == SymbolExpr_mul_opt(self.expr, rhs)
         IN IF e # None THEN UnwrapOr(SymbolExpr_neg_opt(e), _neg(e)) ELSE None
    [] self.op = "Abs" ->
         IF rhs.k = "Unary" /\ rhs.op = "Abs"
         THEN Unary("Abs", UnwrapOr(SymbolExpr_mul_opt(self.expr, rhs.expr),
                                    _mul(self.expr, rhs.expr)))
         ELSE None
    [] OTHER -> None

Unary_mul_expand_body(self, rhs) ==
  IF self.op = "Neg" THEN
    LET e == SymbolExpr_mul_expand(self.expr, rhs)
    IN IF e # None THEN UnwrapOr(SymbolExpr_neg_opt(e), _neg(e))
       ELSE LET e2 == SymbolExpr_mul_opt(self.expr, rhs)
            IN IF e2 # None THEN UnwrapOr(SymbolExpr_neg_opt(e2), _neg(e2)) ELSE None
  ELSE None

Unary_div_opt_body(self, rhs) ==
  CASE self.op = "Neg" ->
         LET e == SymbolExpr_div_opt(self.expr, rhs)
         IN IF e # None THEN UnwrapOr(SymbolExpr_neg_opt(e), _neg(e)) ELSE None
    [] self.op = "Abs" ->
         IF rhs.k = "Unary" /\ rhs.op = "Abs"
         THEN Unary("Abs", UnwrapOr(SymbolExpr_div_opt(self.expr, rhs.expr),
                                    _div(self.expr, rhs.expr)))
         ELSE None
    [] OTHER -> None

Unary_div_expand_body(self, rhs) ==
  IF self.op = "Neg" THEN
    LET e == SymbolExpr_div_expand(self.expr, rhs)
    IN IF e # None THEN UnwrapOr(SymbolExpr_neg_opt(e), _neg(e))
       ELSE LET e2 == SymbolExpr_div_opt(self.expr, rhs)
            IN IF e2 # None THEN UnwrapOr(SymbolExpr_neg_opt(e2), _neg(e2)) ELSE None
  ELSE None

\* --------------------------------------------------------------- Binary

\* The `match e { Real(v) => *v < 0.0, Int(v) => *v < 0, Complex(_) => true }`
\* of Binary::to_string.
ValueNeedsParen(v) ==
  CASE v.t = "Real" -> RLt(v.r, PosZero)
    [] v.t = "Int" -> v.n < 0
    [] OTHER -> TRUE

Paren(s) == << "(" >> \o s \o << ")" >>

Binary_to_string_body(self) ==
  LET s_lhs == SymbolExpr_to_string(self.lhs)
      s_rhs == SymbolExpr_to_string(self.rhs)
      op_lhs == CASE self.lhs.k = "Binary" -> self.lhs.op \in { "Add", "Sub" }
                  [] self.lhs.k = "Value" -> ValueNeedsParen(self.lhs.v)
                  [] OTHER -> FALSE
      op_rhs == CASE self.rhs.k = "Binary" ->
                       self.rhs.op \in { "Add", "Sub" } \/ self.op = "Div"
                  [] self.rhs.k = "Value" -> ValueNeedsParen(self.rhs.v)
                  [] OTHER -> FALSE
      rhs_neg_minus == self.rhs.k = "Unary" /\ self.rhs.op = "Neg" /\ s_rhs[1] = "-"
      nested(e) == e.k \in { "Binary", "Unary" }
      neg_value(e) == e.k = "Value" /\ RLt(Value_as_real(e.v), PosZero)
  IN CASE self.op = "Add" ->
            IF rhs_neg_minus THEN s_lhs \o << " " >> \o s_rhs
            ELSE s_lhs \o << " ", "+", " " >> \o s_rhs
       [] self.op = "Sub" ->
            IF rhs_neg_minus THEN s_lhs \o << " ", "+", " " >> \o SubSeq(s_rhs, 1, 1)
            ELSE IF op_rhs THEN s_lhs \o << " ", "-" >> \o Paren(s_rhs)
            ELSE s_lhs \o << " ", "-", " " >> \o s_rhs
       [] self.op = "Mul" ->
            (IF op_lhs THEN Paren(s_lhs) ELSE s_lhs) \o << "*" >>
            \o (IF op_rhs THEN Paren(s_rhs) ELSE s_rhs)
       [] self.op = "Div" ->
            (IF op_lhs THEN Paren(s_lhs) ELSE s_lhs) \o << "/" >>
            \o (IF op_rhs THEN Paren(s_rhs) ELSE s_rhs)
       [] self.op = "Pow" ->
            CASE nested(self.lhs) ->
                   Paren(s_lhs) \o << "*", "*" >>
                   \o (IF nested(self.rhs) \/ neg_value(self.rhs) THEN Paren(s_rhs) ELSE s_rhs)
              [] self.lhs.k = "Value" ->
                   (IF neg_value(self.lhs) THEN Paren(s_lhs) ELSE s_lhs) \o << "*", "*" >>
                   \o (IF nested(self.rhs) THEN Paren(s_rhs) ELSE s_rhs)
              [] OTHER ->
                   s_lhs \o << "*", "*" >>
                   \o (IF nested(self.rhs) \/ neg_value(self.rhs) THEN Paren(s_rhs) ELSE s_rhs)

Binary_bind_body(self, maps) ==
  LET new_lhs == SymbolExpr_bind(self.lhs, maps)
      new_rhs == SymbolExpr_bind(self.rhs, maps)
  IN CASE self.op = "Add" -> UnwrapOr(SymbolExpr_add_opt(new_lhs, new_rhs), _add(new_lhs, new_rhs))
       [] self.op = "Sub" -> UnwrapOr(SymbolExpr_sub_opt(new_lhs, new_rhs), _sub(new_lhs, new_rhs))
       [] self.op = "Mul" -> UnwrapOr(SymbolExpr_mul_opt(new_lhs, new_rhs), _mul(new_lhs, new_rhs))
       [] self.op = "Div" -> UnwrapOr(SymbolExpr_div_opt(new_lhs, new_rhs), _div(new_lhs, new_rhs))
       [] self.op = "Pow" -> SymbolExpr_pow(new_lhs, new_rhs)

Binary_eval_body(self, recurse) ==
  LET lval == IF recurse THEN SymbolExpr_eval(self.lhs, TRUE)
              ELSE IF self.lhs.k = "Value" THEN self.lhs.v ELSE None
      rval == IF recurse THEN SymbolExpr_eval(self.rhs, TRUE)
              ELSE IF self.rhs.k = "Value" THEN self.rhs.v ELSE None
      ret == CASE self.op = "Add" -> Value_add(lval, rval)
               [] self.op = "Sub" -> Value_sub(lval, rval)
               [] self.op = "Mul" -> Value_mul(lval, rval)
               [] self.op = "Div" -> Value_div(lval, rval)
               [] self.op = "Pow" -> Value_pow(lval, rval)
  IN IF lval = None \/ rval = None THEN None ELSE Value_opt_complex(ret)

Binary_expand_body(self) ==
  CASE self.op = "Mul" ->
         UnwrapOr(SymbolExpr_mul_expand(self.lhs, self.rhs), _mul(self.lhs, self.rhs))
    [] self.op = "Div" ->
         UnwrapOr(SymbolExpr_div_expand(self.lhs, self.rhs), _div(self.lhs, self.rhs))
    [] self.op = "Add" ->
         UnwrapOr(SymbolExpr_add_opt(self.lhs, self.rhs), _add(self.lhs, self.rhs))
    [] self.op = "Sub" ->
         UnwrapOr(SymbolExpr_sub_opt(self.lhs, self.rhs), _sub(self.lhs, self.rhs))
    [] OTHER -> _pow(SymbolExpr_expand(self.lhs), SymbolExpr_expand(self.rhs))

Binary_add_opt_body(self, rhs) ==
  LET same_op == rhs.k = "Binary" /\ self.op = rhs.op /\ self.op \in { "Mul", "Div", "Pow" }
      like == /\ same_op
              /\ self.lhs.k = "Value" /\ rhs.lhs.k = "Value"
              /\ SymbolExpr_to_string(SymbolExpr_expand(self.rhs))
                   = SymbolExpr_to_string(SymbolExpr_expand(rhs.rhs))
      sum == Value(Value_add(self.lhs.v, rhs.lhs.v))
      neg == SymbolExpr_neg_opt(rhs)
      cancel == /\ same_op
                /\ neg # None
                /\ SymbolExpr_to_string(Binary_expand(self))
                     = SymbolExpr_to_string(SymbolExpr_expand(neg))
      r_add == rhs.k = "Binary" /\ rhs.op = "Add"
      r_sub == rhs.k = "Binary" /\ rhs.op = "Sub"
      e1 == IF r_add \/ r_sub THEN Binary_add_opt(self, rhs.lhs) ELSE None
      e2 == IF r_add THEN Binary_add_opt(self, rhs.rhs)
            ELSE IF r_sub THEN Binary_sub_opt(self, rhs.rhs)
            ELSE None
      e3 == IF self.op \in { "Add", "Sub" } THEN SymbolExpr_add_opt(self.lhs, rhs) ELSE None
      e4 == IF self.op = "Add" THEN SymbolExpr_add_opt(self.rhs, rhs)
            ELSE IF self.op = "Sub" THEN SymbolExpr_sub_opt(rhs, self.rhs)
            ELSE None
  IN IF like THEN UnwrapOr(SymbolExpr_mul_opt(sum, self.rhs), _mul(sum, self.rhs))
     ELSE IF cancel THEN Value(VInt(0))
     ELSE IF e1 # None THEN
       (IF r_add THEN UnwrapOr(SymbolExpr_add_opt(e1, rhs.rhs), _add(e1, rhs.rhs))
        ELSE UnwrapOr(SymbolExpr_sub_opt(e1, rhs.rhs), _sub(e1, rhs.rhs)))
     ELSE IF e2 # None THEN UnwrapOr(SymbolExpr_add_opt(e2, rhs.lhs), _add(e2, rhs.lhs))
     ELSE IF e3 # None THEN
       (IF self.op = "Add" THEN UnwrapOr(SymbolExpr_add_opt(e3, self.rhs), _add(e3, self.rhs))
        ELSE UnwrapOr(SymbolExpr_sub_opt(e3, self.rhs), _sub(e3, self.rhs)))
     ELSE IF e4 # None THEN UnwrapOr(SymbolExpr_add_opt(self.lhs, e4), _add(self.lhs, e4))
     ELSE None

Binary_sub_opt_body(self, rhs) ==
  LET same_op == rhs.k = "Binary" /\ self.op = rhs.op /\ self.op \in { "Mul", "Div", "Pow" }
      like == /\ same_op
              /\ self.lhs.k = "Value" /\ rhs.lhs.k = "Value"
              /\ SymbolExpr_to_string(SymbolExpr_expand(self.rhs))
                   = SymbolExpr_to_string(SymbolExpr_expand(rhs.rhs))
      diff == Value(Value_sub(self.lhs.v, rhs.lhs.v))
      cancel == /\ same_op
                /\ SymbolExpr_to_string(Binary_expand(self))
                     = SymbolExpr_to_string(SymbolExpr_expand(rhs))
      r_add == rhs.k = "Binary" /\ rhs.op = "Add"
      r_sub == rhs.k = "Binary" /\ rhs.op = "Sub"
      e1 == IF r_add \/ r_sub THEN Binary_sub_opt(self, rhs.lhs) ELSE None
      e2 == IF r_add THEN Binary_sub_opt(self, rhs.rhs)
            ELSE IF r_sub THEN Binary_add_opt(self, rhs.rhs)
            ELSE None
      e3 == IF self.op \in { "Add", "Sub" } THEN SymbolExpr_sub_opt(self.lhs, rhs) ELSE None
      e4 == IF self.op = "Add" THEN SymbolExpr_sub_opt(self.rhs, rhs)
            ELSE IF self.op = "Sub" THEN SymbolExpr_add_opt(self.rhs, rhs)
            ELSE None
  IN IF like THEN UnwrapOr(SymbolExpr_mul_opt(diff, self.rhs), _mul(diff, self.rhs))
     ELSE IF cancel THEN Value(VInt(0))
     ELSE IF e1 # None THEN
       (IF r_add THEN UnwrapOr(SymbolExpr_sub_opt(e1, rhs.rhs), _sub(e1, rhs.rhs))
        ELSE UnwrapOr(SymbolExpr_add_opt(e1, rhs.rhs), _add(e1, rhs.rhs)))
     ELSE IF e2 # None THEN UnwrapOr(SymbolExpr_sub_opt(e2, rhs.lhs), _sub(e2, rhs.lhs))
     ELSE IF e3 # None THEN
       (IF self.op = "Add" THEN UnwrapOr(SymbolExpr_add_opt(e3, self.rhs), _add(e3, self.rhs))
        ELSE UnwrapOr(SymbolExpr_sub_opt(e3, self.rhs), _sub(e3, self.rhs)))
     ELSE IF e4 # None THEN
       (IF self.op = "Add" THEN UnwrapOr(SymbolExpr_add_opt(self.lhs, e4), _add(self.lhs, e4))
        ELSE UnwrapOr(SymbolExpr_sub_opt(self.lhs, e4), _sub(self.lhs, e4)))
     ELSE None

\* Binary::mul_opt without its last rule, (l / r) * rhs = l * (rhs / r).
Binary_mul_opt_no_div_rule(self, rhs) ==
  LET r_mul == rhs.k = "Binary" /\ rhs.op = "Mul"
      r_div == rhs.k = "Binary" /\ rhs.op = "Div"
      e1 == IF r_mul \/ r_div THEN Binary_mul_opt(self, rhs.lhs) ELSE None
      e2 == IF r_mul THEN Binary_mul_opt(self, rhs.rhs)
            ELSE IF r_div THEN Binary_div_opt(self, rhs.rhs)
            ELSE None
      e3 == IF self.op \in { "Mul", "Div" } THEN SymbolExpr_mul_opt(self.lhs, rhs) ELSE None
      e4 == IF self.op = "Mul" THEN SymbolExpr_mul_opt(self.rhs, rhs) ELSE None
  IN IF e1 # None THEN
       (IF r_mul THEN UnwrapOr(SymbolExpr_mul_opt(e1, rhs.rhs), _mul(e1, rhs.rhs))
        ELSE UnwrapOr(SymbolExpr_div_opt(e1, rhs.rhs), _div(e1, rhs.rhs)))
     ELSE IF e2 # None THEN UnwrapOr(SymbolExpr_mul_opt(e2, rhs.lhs), _mul(e2, rhs.lhs))
     ELSE IF e3 # None THEN
       (IF self.op = "Mul" THEN UnwrapOr(SymbolExpr_mul_opt(e3, self.rhs), _mul(e3, self.rhs))
        ELSE UnwrapOr(SymbolExpr_div_opt(e3, self.rhs), _div(e3, self.rhs)))
     ELSE IF e4 # None THEN UnwrapOr(SymbolExpr_mul_opt(self.lhs, e4), _mul(self.lhs, e4))
     ELSE None

Binary_mul_opt_body(self, rhs) ==
  LET r_mul == rhs.k = "Binary" /\ rhs.op = "Mul"
      r_div == rhs.k = "Binary" /\ rhs.op = "Div"
      e1 == IF r_mul \/ r_div THEN Binary_mul_opt(self, rhs.lhs) ELSE None
      e2 == IF r_mul THEN Binary_mul_opt(self, rhs.rhs)
            ELSE IF r_div THEN Binary_div_opt(self, rhs.rhs)
            ELSE None
      e3 == IF self.op \in { "Mul", "Div" } THEN SymbolExpr_mul_opt(self.lhs, rhs) ELSE None
      e4 == IF self.op = "Mul" THEN SymbolExpr_mul_opt(self.rhs, rhs)
            ELSE IF self.op = "Div" THEN SymbolExpr_div_opt(rhs, self.rhs)
            ELSE None
  IN IF e1 # None THEN
       (IF r_mul THEN UnwrapOr(SymbolExpr_mul_opt(e1, rhs.rhs), _mul(e1, rhs.rhs))
        ELSE UnwrapOr(SymbolExpr_div_opt(e1, rhs.rhs), _div(e1, rhs.rhs)))
     ELSE IF e2 # None THEN UnwrapOr(SymbolExpr_mul_opt(e2, rhs.lhs), _mul(e2, rhs.lhs))
     ELSE IF e3 # None THEN
       (IF self.op = "Mul" THEN UnwrapOr(SymbolExpr_mul_opt(e3, self.rhs), _mul(e3, self.rhs))
        ELSE UnwrapOr(SymbolExpr_div_opt(e3, self.rhs), _div(e3, self.rhs)))
     ELSE IF e4 # None THEN UnwrapOr(SymbolExpr_mul_opt(self.lhs, e4), _mul(self.lhs, e4))
     ELSE None

Binary_mul_expand_body(self, rhs) ==
  CASE self.op \in { "Add", "Sub" } ->
         LET l == UnwrapOr(SymbolExpr_mul_expand(self.lhs, rhs),
                           UnwrapOr(SymbolExpr_mul_opt(self.lhs, rhs), _mul(self.lhs, rhs)))
             r == UnwrapOr(SymbolExpr_mul_expand(self.rhs, rhs),
                           UnwrapOr(SymbolExpr_mul_opt(self.rhs, rhs), _mul(self.rhs, rhs)))
         IN IF self.op = "Sub" THEN UnwrapOr(SymbolExpr_sub_opt(l, r), _sub(l, r))
            ELSE UnwrapOr(SymbolExpr_add_opt(l, r), _add(l, r))
    [] self.op = "Mul" ->
         LET e == SymbolExpr_mul_expand(self.lhs, rhs)
         IN IF e # None
            THEN UnwrapOr(SymbolExpr_mul_expand(e, self.rhs),
                          UnwrapOr(SymbolExpr_mul_opt(e, self.rhs), _mul(e, self.rhs)))
            ELSE LET e2 == SymbolExpr_mul_expand(self.rhs, rhs)
                 IN IF e2 # None
                    THEN UnwrapOr(SymbolExpr_mul_expand(self.lhs, e2),
                                  UnwrapOr(SymbolExpr_mul_opt(self.lhs, e2), _mul(self.lhs, e2)))
                    ELSE None
    [] self.op = "Div" ->
         LET e == SymbolExpr_div_expand(self.lhs, rhs)
         IN IF e # None THEN _div(e, self.rhs)
            ELSE LET e2 == SymbolExpr_div_expand(self.rhs, rhs)
                 IN IF e2 # None THEN _div(self.lhs, e2) ELSE None
    [] OTHER -> None

Binary_div_opt_body(self, rhs) ==
  LET r_mul == rhs.k = "Binary" /\ rhs.op = "Mul"
      r_div == rhs.k = "Binary" /\ rhs.op = "Div"
      e1 == IF r_mul THEN Binary_div_opt(self, rhs.lhs)
            ELSE IF r_div THEN Binary_mul_opt(self, rhs.rhs)
            ELSE None
      e2 == IF r_mul THEN Binary_div_opt(self, rhs.rhs)
            ELSE IF r_div THEN Binary_div_opt(self, rhs.lhs)
            ELSE None
      e3 == IF self.op = "Mul" THEN SymbolExpr_div_opt(self.lhs, rhs)
            ELSE IF self.op = "Div" THEN SymbolExpr_mul_opt(self.rhs, rhs)
            ELSE None
      e4 == IF self.op = "Mul" THEN SymbolExpr_div_opt(self.rhs, rhs)
            ELSE IF self.op = "Div" THEN SymbolExpr_div_opt(self.lhs, rhs)
            ELSE None
  IN IF e1 # None THEN
       (IF r_mul THEN UnwrapOr(SymbolExpr_div_opt(e1, rhs.rhs), _div(e1, rhs.rhs))
        ELSE UnwrapOr(SymbolExpr_div_opt(e1, rhs.lhs), _div(e1, rhs.lhs)))
     ELSE IF e2 # None THEN
       (IF r_mul THEN UnwrapOr(SymbolExpr_div_opt(e2, rhs.lhs), _div(e2, rhs.lhs))
        ELSE UnwrapOr(SymbolExpr_mul_opt(e2, rhs.rhs), _mul(e2, rhs.rhs)))
     ELSE IF e3 # None THEN
       (IF self.op = "Mul" THEN UnwrapOr(SymbolExpr_mul_opt(e3, self.rhs), _mul(e3, self.rhs))
        ELSE UnwrapOr(SymbolExpr_div_opt(self.lhs, e3), _div(self.lhs, e3)))
     ELSE IF e4 # None THEN
       (IF self.op = "Mul" THEN UnwrapOr(SymbolExpr_mul_opt(self.lhs, e4), _mul(self.lhs, e4))
        ELSE UnwrapOr(SymbolExpr_div_opt(e4, self.rhs), _div(e4, self.rhs)))
     ELSE None

Binary_div_expand_body(self, rhs) ==
  IF self.op \in { "Add", "Sub" } THEN
    LET l == UnwrapOr(SymbolExpr_div_expand(self.lhs, rhs),
                      UnwrapOr(SymbolExpr_div_opt(self.lhs, rhs), _div(self.lhs, rhs)))
        r == UnwrapOr(SymbolExpr_div_expand(self.rhs, rhs),
                      UnwrapOr(SymbolExpr_div_opt(self.rhs, rhs), _div(self.rhs, rhs)))
    IN IF self.op = "Sub" THEN UnwrapOr(SymbolExpr_sub_opt(l, r), _sub(l, r))
       ELSE UnwrapOr(SymbolExpr_add_opt(l, r), _add(l, r))
  ELSE None

\* ----------------------------------------------------------- derivative

RECURSIVE SymbolExpr_has_symbol(_, _)
SymbolExpr_has_symbol(self, param) ==
  CASE self.k = "Symbol" -> self.name = param
    [] self.k = "Value" -> FALSE
    [] self.k = "Unary" -> SymbolExpr_has_symbol(self.expr, param)
    [] self.k = "Binary" ->
         SymbolExpr_has_symbol(self.lhs, param) \/ SymbolExpr_has_symbol(self.rhs, param)

\* HashSet<String> of the names in the tree.
RECURSIVE SymbolExpr_symbols(_)
SymbolExpr_symbols(self) ==
  CASE self.k = "Symbol" -> { self.name }
    [] self.k = "Value" -> { }
    [] self.k = "Unary" -> SymbolExpr_symbols(self.expr)
    [] self.k = "Binary" -> SymbolExpr_symbols(self.lhs) \cup SymbolExpr_symbols(self.rhs)

\* PySymbolExpr::float: Err(PyRuntimeError) when eval(true) is None, else
\* Ok of the real part.
float(self) ==
  IF SymbolExpr_eval(self, TRUE) = None
  THEN [ ok |-> FALSE, err |-> "Expression has some undefined symbols." ]
  ELSE [ ok |-> TRUE ]

\* The accessors' match on the Option<Value> that eval(true) returns.
RealPart(v) ==
  IF v = None THEN None
  ELSE CASE v.t = "Real" -> v.r
         [] v.t = "Int" -> RFromInt(v.n)
         [] v.t = "Complex" -> v.c.re

ImagPart(v) ==
  IF v = None THEN None
  ELSE CASE v.t = "Real" -> PosZero
         [] v.t = "Int" -> PosZero
         [] v.t = "Complex" -> v.c.im

ComplexOf(v) ==
  IF v = None THEN None
  ELSE CASE v.t = "Real" -> CFromReal(PosZero)
         [] v.t = "Int" -> CFromReal(PosZero)
         [] v.t = "Complex" -> v.c

\* SymbolExpr::real, SymbolExpr::imag, SymbolExpr::complex.
SymbolExpr_real(self) == RealPart(SymbolExpr_eval(self, TRUE))
SymbolExpr_imag(self) == ImagPart(SymbolExpr_eval(self, TRUE))
SymbolExpr_complex(self) == ComplexOf(SymbolExpr_eval(self, TRUE))

SymbolExpr_derivative_body(self, param) ==
  IF SymbolExpr_eq(self, param) THEN Value(VReal(<< 1, 1 >>))
  ELSE CASE self.k \in { "Value", "Symbol" } -> Value(VReal(PosZero))
         [] self.k = "Unary" -> Unary_derivative(self, param)
         [] self.k = "Binary" -> Binary_derivative(self, param)

\* The factor of the asin and acos rules: (1.0 - expr * expr) ** 0.5, a value
\* when the difference folds to one.
OneMinusSquareRoot(expr) ==
  LET d == SymbolExpr_sub(Value(VReal(<< 1, 1 >>)), SymbolExpr_mul(expr, expr))
  IN IF d.k = "Value" THEN Value(Value_sqrt(d.v))
     ELSE Binary("Pow", d, Value(VReal(<< 1, 2 >>)))

Unary_derivative_body(self, param) ==
  LET expr_d == SymbolExpr_derivative(self.expr, param)
  IN CASE self.op = "Abs" ->
            SymbolExpr_div(SymbolExpr_mul(self.expr, expr_d), Unary("Abs", self.expr))
       [] self.op = "Neg" -> Unary("Neg", expr_d)
       [] self.op = "Sin" -> SymbolExpr_mul(Unary("Cos", self.expr), expr_d)
       [] self.op = "Asin" -> SymbolExpr_mul(OneMinusSquareRoot(self.expr), expr_d)
       [] self.op = "Cos" ->
            SymbolExpr_mul(SymbolExpr_neg(Unary("Sin", self.expr)), expr_d)
       [] self.op = "Acos" ->
            SymbolExpr_mul(SymbolExpr_neg(OneMinusSquareRoot(self.expr)), expr_d)
       [] self.op = "Tan" ->
            LET d == Unary("Cos", self.expr)
            IN SymbolExpr_div(SymbolExpr_div(expr_d, d), d)
       [] self.op = "Atan" ->
            SymbolExpr_div(expr_d,
              SymbolExpr_add(Value(VReal(<< 1, 1 >>)), SymbolExpr_mul(self.expr, self.expr)))
       [] self.op = "Exp" -> SymbolExpr_mul(Unary("Exp", self.expr), expr_d)
       [] self.op = "Log" -> SymbolExpr_div(expr_d, self.expr)
       [] self.op = "Sign" -> Unary("Sign", expr_d)

Binary_derivative_body(self, param) ==
  LET name == SymbolExpr_to_string(param)
  IN CASE self.op = "Add" ->
            SymbolExpr_add(SymbolExpr_derivative(self.lhs, param),
                           SymbolExpr_derivative(self.rhs, param))
       [] self.op = "Sub" ->
            SymbolExpr_sub(SymbolExpr_derivative(self.lhs, param),
                           SymbolExpr_derivative(self.rhs, param))
       [] self.op = "Mul" ->
            SymbolExpr_add(SymbolExpr_mul(SymbolExpr_derivative(self.lhs, param), self.rhs),
                           SymbolExpr_mul(self.lhs, SymbolExpr_derivative(self.rhs, param)))
       [] self.op = "Div" ->
            SymbolExpr_div(
              SymbolExpr_div(
                SymbolExpr_sub(
                  SymbolExpr_mul(SymbolExpr_derivative(self.lhs, param), self.rhs),
                  SymbolExpr_mul(self.lhs, SymbolExpr_derivative(self.rhs, param))),
                self.rhs),
              self.rhs)
       [] self.op = "Pow" ->
            IF ~SymbolExpr_has_symbol(self.lhs, name) THEN
              (IF ~SymbolExpr_has_symbol(self.rhs, name) THEN Value(VReal(PosZero))
               ELSE Binary("Mul", Binary("Pow", self.lhs, self.rhs), Unary("Log", self.lhs)))
            ELSE IF ~SymbolExpr_has_symbol(self.rhs, name) THEN
              LET rhs == SymbolExpr_sub(self.rhs, Value(VReal(<< 1, 1 >>)))
              IN SymbolExpr_mul(self.rhs, Binary("Pow", self.lhs, rhs))
            ELSE SymbolExpr_derivative(
                   Unary("Exp", Binary("Mul", Unary("Log", self.lhs), self.rhs)), param)

\* --------------------------------------------------------------- parser
\* symbol_parser.rs.  A text is a sequence of characters; a parser takes a
\* text and gives Err(Error), or Ok((rest, container)).  A step that uses
\* the result of an earlier one several times is an operator that takes it
\* as an argument.

\* IResult<&str, BinaryOpContainer>
PErr == [ ok |-> FALSE ]
POk(rest, op, expr) == [ ok |-> TRUE, rest |-> rest, op |-> op, expr |-> expr ]

\* struct BinaryOpContainer { op, expr }
BinaryOpContainer(op, expr) == [ op |-> op, expr |-> expr ]

Drop(s, n) == SubSeq(s, n + 1, Len(s))

DigitSet == { Digits[i] : i \in 1..Len(Digits) }
\* char::is_alphabetic, char::is_alphanumeric on the characters of the model.
AlphaSet == CharSet \ (DigitSet \cup { " ", "(", ")", "*", "+", "-", ".", "/", "[", "]", "_" })
AlnumSet == AlphaSet \cup DigitSet

\* The length of the longest prefix of s made of characters of cs.
RECURSIVE Span(_, _)
Span(s, cs) == IF s = << >> THEN 0 ELSE IF s[1] \notin cs THEN 0 ELSE 1 + Span(Tail(s), cs)

StartsWith(s, t) == Len(s) >= Len(t) /\ SubSeq(s, 1, Len(t)) = t

multispace0(s) == Drop(s, Span(s, { " " }))

RECURSIVE DigitsToNat(_)
DigitsToNat(ds) ==
  IF ds = << >> THEN 0
  ELSE 10 * DigitsToNat(SubSeq(ds, 1, Len(ds) - 1)) + (Code[ds[Len(ds)]] - Code["0"])

\* nom::number::complete::double on a text with no exponent part: an optional
\* sign (sg characters), n1 digits, then a fraction of fl characters: "." and
\* digits, the digits optional when n1 > 0.
SignLen(s) == IF s = << >> THEN 0 ELSE IF s[1] \in { "+", "-" } THEN 1 ELSE 0

FractionLen(t, n1) ==
  IF ~StartsWith(t, << "." >>) THEN 0
  ELSE IF n1 = 0 /\ Span(Drop(t, 1), DigitSet) = 0 THEN 0
  ELSE 1 + Span(Drop(t, 1), DigitSet)

DoubleValue(negative, int, frac) ==
  RSigned(negative, RNorm(DigitsToNat(int \o frac), IntPow(10, Len(frac))))

DoubleResult(s, sg, n1, fl) ==
  IF n1 = 0 /\ fl = 0 THEN [ ok |-> FALSE ]
  ELSE [ ok |-> TRUE, rest |-> Drop(s, sg + n1 + fl),
         v |-> DoubleValue(s[1] = "-", SubSeq(s, sg + 1, sg + n1),
                           SubSeq(s, sg + n1 + 2, sg + n1 + fl)) ]

DoubleDigits(s, sg, n1) == DoubleResult(s, sg, n1, FractionLen(Drop(s, sg + n1), n1))

double(s) == DoubleDigits(s, SignLen(s), Span(Drop(s, SignLen(s)), DigitSet))

ValueContainer(d) == IF d.ok THEN POk(d.rest, "Add", Value(VReal(d.v))) ELSE PErr

parse_value(s) == ValueContainer(double(s))

ImaginaryContainer(d) ==
  IF ~d.ok THEN PErr
  ELSE IF StartsWith(d.rest, << "i" >>)
  THEN POk(Drop(d.rest, 1), "Add", Value(VComplex(Cx(PosZero, d.v))))
  ELSE PErr

parse_imaginary_value(s) == ImaginaryContainer(double(s))

\* The length of the name at the head of s, 0 when there is none: letters or
\* "_" (first characters), then letters, digits and "_".
NameRest(s, first) ==
  IF first = 0 THEN 0 ELSE first + Span(Drop(s, first), AlnumSet \cup { "_" })

NameFirst(s, n0) == NameRest(s, IF n0 > 0 THEN n0 ELSE IF StartsWith(s, << "_" >>) THEN 1 ELSE 0)

parse_symbol_string(s) == NameFirst(s, Span(s, AlphaSet))

\* opt(delimited(char('['), digit1, char(']'))): the characters it consumes.
IndexClosed(t, m) == IF m > 0 /\ StartsWith(Drop(t, 1 + m), << "]" >>) THEN m + 2 ELSE 0

IndexLen(t) == IF StartsWith(t, << "[" >>) THEN IndexClosed(t, Span(Drop(t, 1), DigitSet)) ELSE 0

SymbolIndexed(s, used) == POk(Drop(s, used), "Add", Symbol(SubSeq(s, 1, used)))

SymbolContainer(s, n) == IF n = 0 THEN PErr ELSE SymbolIndexed(s, n + IndexLen(Drop(s, n)))

parse_symbol(s) == SymbolContainer(s, parse_symbol_string(s))

\* delimited(char('('), delimited(multispace0, parse_addsub, multispace0), char(')'))
CloseAt(inner, t) ==
  IF StartsWith(t, << ")" >>) THEN POk(Drop(t, 1), inner.op, inner.expr) ELSE PErr

Close(inner) == IF inner.ok THEN CloseAt(inner, multispace0(inner.rest)) ELSE PErr

Parenthesised(s) ==
  IF StartsWith(s, << "(" >>) THEN Close(parse_addsub(multispace0(Drop(s, 1)))) ELSE PErr

\* The function names parse_unary knows.
ParsedUnaries == { "Sin", "Asin", "Cos", "Acos", "Tan", "Atan", "Log", "Exp" }

UnaryContainer(v, arg) ==
  IF ~arg.ok THEN PErr
  ELSE IF \E op \in ParsedUnaries : UnaryName(op) = v
  THEN POk(arg.rest, "Add", Unary(CHOOSE op \in ParsedUnaries : UnaryName(op) = v, arg.expr))
  ELSE PErr

UnaryNamed(s, n) ==
  IF n = 0 THEN PErr ELSE UnaryContainer(SubSeq(s, 1, n), Parenthesised(Drop(s, n)))

parse_unary(s) == UnaryNamed(s, Span(s, AlnumSet))

\* alt: the first parser that succeeds.
Alt(r1, r2) == IF r1.ok THEN r1 ELSE r2

NegContainer(r) == IF r.ok THEN POk(r.rest, "Add", Unary("Neg", r.expr)) ELSE PErr

NegOperand(t) ==
  Alt(parse_imaginary_value(t), Alt(parse_value(t), Alt(parse_unary(t),
    Alt(parse_symbol(t), Parenthesised(t)))))

parse_neg(s) == IF StartsWith(s, << "-" >>) THEN NegContainer(NegOperand(Drop(s, 1))) ELSE PErr

parse_expr_body(s) ==
  Alt(parse_imaginary_value(s), Alt(parse_value(s), Alt(parse_neg(s), Alt(parse_unary(s),
    Alt(parse_symbol(s), Parenthesised(s))))))

\* BinaryOpContainer::accum
accum(self, rhs) ==
  CASE rhs.op = "Add" -> BinaryOpContainer(rhs.op, SymbolExpr_add(self.expr, rhs.expr))
    [] rhs.op = "Sub" -> BinaryOpContainer(rhs.op, SymbolExpr_sub(self.expr, rhs.expr))
    [] rhs.op = "Mul" -> BinaryOpContainer(rhs.op, SymbolExpr_mul(self.expr, rhs.expr))
    [] rhs.op = "Div" -> BinaryOpContainer(rhs.op, SymbolExpr_div(self.expr, rhs.expr))
    [] rhs.op = "Pow" -> BinaryOpContainer(rhs.op, SymbolExpr_pow(self.expr, rhs.expr))

\* rvec.iter().fold(lhs, |acc, x| acc.accum(x.clone()))
RECURSIVE Fold(_, _)
Fold(acc, rvec) == IF rvec = << >> THEN acc ELSE Fold(accum(acc, Head(rvec)), Tail(rvec))

\* The two levels of binary operators: parse_muldiv reads parse_expr
\* operands, parse_addsub reads parse_muldiv operands.
Operand(level, s) == IF level = "muldiv" THEN parse_expr(s) ELSE parse_muldiv(s)
Many0(level, s) == IF level = "muldiv" THEN many0_muldiv(s) ELSE many0_addsub(s)

\* alt((tag("**"), tag("*"), tag("/"))) and alt((char('+'), char('-')))
OperatorAt(level, t) ==
  IF level = "muldiv"
  THEN (IF StartsWith(t, << "*", "*" >>) THEN "Pow"
        ELSE IF StartsWith(t, << "*" >>) THEN "Mul"
        ELSE IF StartsWith(t, << "/" >>) THEN "Div"
        ELSE "none")
  ELSE (IF StartsWith(t, << "+" >>) THEN "Add"
        ELSE IF StartsWith(t, << "-" >>) THEN "Sub"
        ELSE "none")

\* many0 of (multispace0, operator, multispace0, operand): the containers
\* read, each with its operator, and the text left.
Many0End(s) == [ rest |-> s, rvec |-> << >> ]

Many0Cons(item, more) == [ rest |-> more.rest, rvec |-> << item >> \o more.rvec ]

Many0Item(level, s, op, rhs) ==
  IF rhs.ok THEN Many0Cons(BinaryOpContainer(op, rhs.expr), Many0(level, rhs.rest))
  ELSE Many0End(s)

Many0Operator(level, s, t, op) ==
  IF op = "none" THEN Many0End(s)
  ELSE Many0Item(level, s, op,
         Operand(level, multispace0(Drop(t, IF op = "Pow" THEN 2 ELSE 1))))

Many0Step(level, s, t) == Many0Operator(level, s, t, OperatorAt(level, t))

many0_muldiv_body(s) == Many0Step("muldiv", s, multispace0(s))

many0_addsub_body(s) == Many0Step("addsub", s, multispace0(s))

\* map_res(permutation((operand, many0(...))), fold): the operand is tried
\* first; when it fails the many0 runs first and the operand is read after it.
Folded(rest, out) == POk(rest, out.op, out.expr)

FoldFirst(lhs, m) == Folded(m.rest, Fold(BinaryOpContainer(lhs.op, lhs.expr), m.rvec))

FoldLate(m, late) ==
  IF late.ok THEN Folded(late.rest, Fold(BinaryOpContainer(late.op, late.expr), m.rvec))
  ELSE PErr

OperandLate(level, m) == FoldLate(m, Operand(level, m.rest))

permutation(level, s, lhs) ==
  IF lhs.ok THEN FoldFirst(lhs, Many0(level, lhs.rest)) ELSE OperandLate(level, Many0(level, s))

parse_muldiv_body(s) == permutation("muldiv", s, parse_expr(s))

parse_addsub_body(s) == permutation("addsub", s, parse_muldiv(s))

\* The panic of Result::unwrap on an Err.
Panic == [ k |-> "Panic" ]

\* all_consuming(...), then unwrap().1.expr
unwrap(r) == IF ~r.ok THEN Panic ELSE IF r.rest = << >> THEN r.expr ELSE Panic

parse_expression(s) == unwrap(parse_addsub(s))

\* ------------------------------------------------------------- dispatch

call(m, self, a) ==
  CASE m = "to_string" -> SymbolExpr_to_string_body(self)
    [] m = "bind" -> SymbolExpr_bind_body(self, a)
    [] m = "eval" -> SymbolExpr_eval_body(self, a)
    [] m = "expand" -> SymbolExpr_expand_body(self)
    [] m = "is_negative" -> SymbolExpr_is_negative_body(self)
    [] m = "add_opt" -> SymbolExpr_add_opt_body(self, a)
    [] m = "sub_opt" -> SymbolExpr_sub_opt_body(self, a)
    [] m = "mul_opt" -> SymbolExpr_mul_opt_body(self, a)
    [] m = "mul_expand" -> SymbolExpr_mul_expand_body(self, a)
    [] m = "div_opt" -> SymbolExpr_div_opt_body(self, a)
    [] m = "div_expand" -> SymbolExpr_div_expand_body(self, a)
    [] m = "neg_opt" -> SymbolExpr_neg_opt_body(self)
    [] m = "eq" -> SymbolExpr_eq_body(self, a)
    [] m = "partial_cmp" -> SymbolExpr_partial_cmp_body(self, a)
    [] m = "Symbol_add_opt" -> Symbol_add_opt_body(self, a)
    [] m = "Symbol_sub_opt" -> Symbol_sub_opt_body(self, a)
    [] m = "Symbol_mul_opt" -> Symbol_mul_opt_body(self, a)
    [] m = "Symbol_div_opt" -> Symbol_div_opt_body(self, a)
    [] m = "Value_add_opt" -> Value_add_opt_body(self, a)
    [] m = "Value_sub_opt" -> Value_sub_opt_body(self, a)
    [] m = "Value_mul_opt" -> Value_mul_opt_body(self, a)
    [] m = "Value_div_opt" -> Value_div_opt_body(self, a)
    [] m = "Unary_bind" -> Unary_bind_body(self, a)
    [] m = "Unary_eval" -> Unary_eval_body(self, a)
    [] m = "Unary_add_opt" -> Unary_add_opt_body(self, a)
    [] m = "Unary_sub_opt" -> Unary_sub_opt_body(self, a)
    [] m = "Unary_mul_opt" -> Unary_mul_opt_body(self, a)
    [] m = "Unary_mul_expand" -> Unary_mul_expand_body(self, a)
    [] m = "Unary_div_opt" -> Unary_div_opt_body(self, a)
    [] m = "Unary_div_expand" -> Unary_div_expand_body(self, a)
    [] m = "Binary_bind" -> Binary_bind_body(self, a)
    [] m = "Binary_eval" -> Binary_eval_body(self, a)
    [] m = "Binary_add_opt" -> Binary_add_opt_body(self, a)
    [] m = "Binary_sub_opt" -> Binary_sub_opt_body(self, a)
    [] m = "Binary_mul_opt" -> Binary_mul_opt_body(self, a)
    [] m = "Binary_mul_expand" -> Binary_mul_expand_body(self, a)
    [] m = "Binary_div_opt" -> Binary_div_opt_body(self, a)
    [] m = "Binary_div_expand" -> Binary_div_expand_body(self, a)
    [] m = "SymbolExpr_add" -> SymbolExpr_add_body(self, a)
    [] m = "SymbolExpr_sub" -> SymbolExpr_sub_body(self, a)
    [] m = "SymbolExpr_mul" -> SymbolExpr_mul_body(self, a)
    [] m = "SymbolExpr_div" -> SymbolExpr_div_body(self, a)
    [] m = "_add" -> _add_body(self, a)
    [] m = "_sub" -> _sub_body(self, a)
    [] m = "Unary_to_string" -> Unary_to_string_body(self)
    [] m = "Unary_expand" -> Unary_expand_body(self)
    [] m = "Binary_to_string" -> Binary_to_string_body(self)
    [] m = "Binary_expand" -> Binary_expand_body(self)
    [] m = "SymbolExpr_neg" -> SymbolExpr_neg_body(self)
    [] m = "derivative" -> SymbolExpr_derivative_body(self, a)
    [] m = "Unary_derivative" -> Unary_derivative_body(self, a)
    [] m = "Binary_derivative" -> Binary_derivative_body(self, a)
    [] m = "parse_expr" -> parse_expr_body(self)
    [] m = "parse_muldiv" -> parse_muldiv_body(self)
    [] m = "parse_addsub" -> parse_addsub_body(self)
    [] m = "many0_muldiv" -> many0_muldiv_body(self)
    [] m = "many0_addsub" -> many0_addsub_body(self)

\* -------------------------------------------------------------- machine
\* Two PySymbolExpr objects of an interpreter session, `x` and `y`.  Every
\* method of the wrapper returns a new object; the session stores it back
\* into the receiver's name (x = x + y, y = sin(y), x = x.bind(m)).

\* Operations of one session before the final bind.
MaxOps == 2

Names == { << "a" >>, << "b" >> }
IntLeaves == { 0, 1, 2 }
RealLeaves == { << 1, 2 >> }
\* f64 values a bind supplies.
BindVals == { << 0, 1 >>, << 1, 1 >>, << 2, 1 >> }

Leaves ==
  { Symbol(n) : n \in Names } \cup { Value(VInt(i)) : i \in IntLeaves }
    \cup { Value(VReal(r)) : r \in RealLeaves }

\* HashMap<String, BindValue> arguments of bind: every non-empty map.
BindMaps == UNION { [ d -> BindVals ] : d \in (SUBSET Names) \ { {} } }
\* The maps that bind every symbol.
TotalMaps == [ Names -> BindVals ]

\* The f64 values the model represents exactly: no Irr inside the tree.
RECURSIVE InModel(_)
InModel(e) ==
  CASE e.k = "Symbol" -> TRUE
    [] e.k = "Value" ->
         (CASE e.v.t = "Real" -> ~RIsIrr(e.v.r)
            [] e.v.t = "Int" -> TRUE
            [] OTHER -> ~RIsIrr(e.v.c.re) /\ ~RIsIrr(e.v.c.im))
    [] e.k = "Unary" -> InModel(e.expr)
    [] e.k = "Binary" -> InModel(e.lhs) /\ InModel(e.rhs)

\* A real number proper: a rational, neither infinite nor NaN nor Irr.
Proper(r) == RIsFinite(r) /\ ~RIsIrr(r) /\ ~RIsNaN(r)

\* The operators applied directly to numbers; NaN stands for "undefined"
\* (a division by zero, or a value that is no rational).
NumBinary(op, l, r) ==
  IF ~Proper(l) \/ ~Proper(r) THEN NaN
  ELSE LET v == CASE op = "Add" -> RAdd(l, r)
                  [] op = "Sub" -> RSub(l, r)
                  [] op = "Mul" -> RMul(l, r)
                  [] op = "Div" -> IF RIsZero(r) THEN NaN ELSE RDiv(l, r)
                  [] op = "Pow" -> IF RSignBit(l) /\ ~RIsWholeNumber(r) THEN NaN
                                   ELSE IF RSignBit(l) THEN
                                     RSigned(r[1] % 2 = 1, RPowf(RAbs(l), r))
                                   ELSE RPowf(l, r)
       IN IF Proper(v) THEN v ELSE NaN

NumUnary(op, l) ==
  IF ~Proper(l) THEN NaN
  ELSE LET v == CASE op = "Neg" -> RNeg(l)
                  [] op = "Abs" -> RAbs(l)
                  [] op = "Sin" -> RSin(l)
                  [] op = "Cos" -> RCos(l)
                  [] op = "Tan" -> RTan(l)
                  [] op = "Asin" -> RAsin(l)
                  [] op = "Acos" -> RAcos(l)
                  [] op = "Atan" -> RAtan(l)
                  [] op = "Exp" -> RExp(l)
                  [] op = "Log" -> RLn(l)
                  [] op = "Sign" -> IF RIsZero(l) THEN l
                                    ELSE IF RSignBit(l) THEN << -1, 1 >> ELSE << 1, 1 >>
       IN IF Proper(v) THEN v ELSE NaN

\* Equality of two proper numbers (+0 = -0).
NumEq(l, r) == Proper(l) /\ Proper(r) /\ RNum(l) * RDen(r) = RNum(r) * RDen(l)

\* The number a leaf stands for under the total map m.
LeafNum(e, m) ==
  CASE e.k = "Symbol" -> m[e.name]
    [] e.v.t = "Int" -> RFromInt(e.v.n)
    [] OTHER -> e.v.r

\* The number the tree e stands for when its symbols take the values of m.
RECURSIVE NumOf(_, _)
NumOf(e, m) ==
  CASE e.k = "Symbol" -> m[e.name]
    [] e.k = "Value" ->
         (CASE e.v.t = "Int" -> RFromInt(e.v.n)
            [] e.v.t = "Real" -> IF Proper(e.v.r) THEN e.v.r ELSE NaN
            [] OTHER -> NaN)
    [] e.k = "Unary" -> NumUnary(e.op, NumOf(e.expr, m))
    [] e.k = "Binary" -> NumBinary(e.op, NumOf(e.lhs, m), NumOf(e.rhs, m))

\* The points at which a derivative is compared with its rule.
EvalVals == { << 0, 1 >>, << 1, 1 >>, << 2, 1 >>, << 3, 5 >> }
EvalMaps == [ Names -> EvalVals ]

\* m with the entries of maps written over it.
Override(m, maps) == [ n \in Names |-> IF n \in DOMAIN maps THEN maps[n] ELSE m[n] ]

VARIABLES
  x,      \* PySymbolExpr.expr of the first object
  y,      \* PySymbolExpr.expr of the second object
  nx,     \* history: for each total map, the number x's operators give
  ny,     \* history: the same for y
  last,   \* history: the latest call, its operands and its result
  nops    \* calls made so far

vars == << x, y, nx, ny, last, nops >>

Call(op, lhs, rhs, maps, out) ==
  [ op |-> op, lhs |-> lhs, rhs |-> rhs, maps |-> maps, out |-> out ]

NoMaps == << >>

\* PySymbolExpr::Symbol, PySymbolExpr::Value: two objects are constructed.
Init ==
  /\ x \in Leaves
  /\ y \in Leaves
  /\ nx = [ m \in TotalMaps |-> LeafNum(x, m) ]
  /\ ny = [ m \in TotalMaps |-> LeafNum(y, m) ]
  /\ last = Call("new", x, y, NoMaps, x)
  /\ nops = 0

\* bind, derivative and the round trip through text end a session.
Final == { "bind", "derivative", "roundtrip" }

Ready == nops < MaxOps /\ last.op \notin Final

\* x = x <op> rhs, rhs being x or y.
BinaryCall(op, out, rhs, nrhs) ==
  /\ Ready
  /\ InModel(out)
  /\ x' = out
  /\ nx' = [ m \in TotalMaps |-> NumBinary(op, nx[m], nrhs[m]) ]
  /\ last' = Call(op, x, rhs, NoMaps, out)
  /\ nops' = nops + 1
  /\ UNCHANGED << y, ny >>

__add__ ==
  \E r \in { "x", "y" } :
    LET rhs == IF r = "x" THEN x ELSE y
    IN BinaryCall("Add", SymbolExpr_add(x, rhs), rhs, IF r = "x" THEN nx ELSE ny)

__sub__ ==
  \E r \in { "x", "y" } :
    LET rhs == IF r = "x" THEN x ELSE y
    IN BinaryCall("Sub", SymbolExpr_sub(x, rhs), rhs, IF r = "x" THEN nx ELSE ny)

__mul__ ==
  \E r \in { "x", "y" } :
    LET rhs == IF r = "x" THEN x ELSE y
    IN BinaryCall("Mul", SymbolExpr_mul(x, rhs), rhs, IF r = "x" THEN nx ELSE ny)

__truediv__ ==
  \E r \in { "x", "y" } :
    LET rhs == IF r = "x" THEN x ELSE y
    IN BinaryCall("Div", SymbolExpr_div(x, rhs), rhs, IF r = "x" THEN nx ELSE ny)

__pow__ ==
  \E r \in { "x", "y" } :
    LET rhs == IF r = "x" THEN x ELSE y
    IN BinaryCall("Pow", SymbolExpr_pow(x, rhs), rhs, IF r = "x" THEN nx ELSE ny)

\* The receiver r becomes the result of a unary method.
UnaryCall(op, r, out) ==
  /\ Ready
  /\ InModel(out)
  /\ last' = Call(op, IF r = "x" THEN x ELSE y, None, NoMaps, out)
  /\ nops' = nops + 1
  /\ IF r = "x"
     THEN /\ x' = out
          /\ nx' = [ m \in TotalMaps |-> NumUnary(op, nx[m]) ]
          /\ UNCHANGED << y, ny >>
     ELSE /\ y' = out
          /\ ny' = [ m \in TotalMaps |-> NumUnary(op, ny[m]) ]
          /\ UNCHANGED << x, nx >>

__neg__ ==
  \E r \in { "x", "y" } :
    UnaryCall("Neg", r, SymbolExpr_neg(IF r = "x" THEN x ELSE y))

sin == \E r \in { "x", "y" } : UnaryCall("Sin", r, SymbolExpr_sin(IF r = "x" THEN x ELSE y))

cos == \E r \in { "x", "y" } : UnaryCall("Cos", r, SymbolExpr_cos(IF r = "x" THEN x ELSE y))

abs == \E r \in { "x", "y" } : UnaryCall("Abs", r, SymbolExpr_abs(IF r = "x" THEN x ELSE y))

asin == \E r \in { "x", "y" } : UnaryCall("Asin", r, SymbolExpr_asin(IF r = "x" THEN x ELSE y))

\* x = x.bind(maps): the last call of a session.
bind ==
  \E maps \in BindMaps :
    LET out == SymbolExpr_bind(x, [ n \in DOMAIN maps |-> VReal(maps[n]) ])
    IN /\ last.op \notin Final
       /\ InModel(out)
       /\ x' = out
       /\ nx' = [ m \in TotalMaps |-> nx[Override(m, maps)] ]
       /\ last' = Call("bind", x, None, [ n \in DOMAIN maps |-> VReal(maps[n]) ], out)
       /\ UNCHANGED << y, ny, nops >>

\* x = x.derivative(Symbol(n)): the last call of a session.  The operators
\* that built x no longer give the number of the result.
derivative ==
  \E n \in Names :
    LET param == Symbol(n)
        out == SymbolExpr_derivative(x, param)
    IN /\ last.op \notin Final
       /\ InModel(out)
       /\ x' = out
       /\ nx' = [ m \in TotalMaps |-> NaN ]
       /\ last' = Call("derivative", x, param, NoMaps, out)
       /\ UNCHANGED << y, ny, nops >>

Next ==
  \/ __add__
  \/ __sub__
  \/ __mul__
  \/ __truediv__
  \/ __pow__
  \/ __neg__
  \/ sin
  \/ cos
  \/ abs
  \/ asin
  \/ bind

Spec == Init /\ [][Next]_vars

\* A session that may end with a derivative.
DiffNext ==
  \/ Next
  \/ derivative

DiffSpec == Init /\ [][DiffNext]_vars

\* ------------------------------------------------------- parsing session
\* A session whose first object is constructed from a text.

\* Texts of operands and of arguments, of binary operators as the renderer
\* writes them, and of function names: the ten the renderer writes and two
\* it does not.
OperandTexts == { << "a" >>, << "b" >>, << "2" >> }
ArgumentTexts == { << "a" >>, << "0", ".", "5" >> }
MulDivTexts == { << "*" >>, << "/" >> }
OperatorTexts == MulDivTexts \cup { << "*", "*" >>, << " ", "+", " " >>, << " ", "-", " " >> }
RenderedUnaries == { "Abs", "Sin", "Cos", "Tan", "Asin", "Acos", "Atan", "Exp", "Log", "Sign" }
FunctionNames ==
  { UnaryName(op) : op \in RenderedUnaries } \cup { << "f", "o", "o" >>, << "s", "q", "r", "t" >> }
\* What follows a function call: nothing, or text the grammar cannot consume.
Trailers == { << >>, << ")" >>, << " ", "b" >> }

ChainText(p, o1, q, o2, r) == p \o o1 \o q \o o2 \o r
FunctionCallText(f, arg, t) == f \o << "(" >> \o arg \o << ")" >> \o t

Texts ==
  { ChainText(t[1], t[2], t[3], t[4], t[5]) :
      t \in OperandTexts \X OperatorTexts \X OperandTexts \X OperatorTexts \X OperandTexts }
  \cup { FunctionCallText(t[1], t[2], t[3]) : t \in FunctionNames \X ArgumentTexts \X Trailers }

\* x = PySymbolExpr.Expression(text), the first call of a session; a text
\* spells up to two operations and counts as two.  A panic of the parser
\* leaves x as it was.
Constructed(text, out) ==
  /\ last.op = "new"
  /\ nops + 2 <= MaxOps
  /\ IF out = Panic THEN TRUE ELSE InModel(out)
  /\ x' = IF out = Panic THEN x ELSE out
  /\ nx' = [ m \in TotalMaps |-> IF out = Panic THEN nx[m] ELSE NumOf(out, m) ]
  /\ last' = Call("Expression", text, None, NoMaps, out)
  /\ nops' = nops + 2
  /\ UNCHANGED << y, ny >>

Expression == \E text \in Texts : Constructed(text, parse_expression(text))

\* x = x.sign() (or y = y.sign()): SymbolExpr::sign.
sign == \E r \in { "x", "y" } : UnaryCall("Sign", r, SymbolExpr_sign(IF r = "x" THEN x ELSE y))

\* The f64 values whose rendering the model's double reads back exactly:
\* decimals of at most MaxDecimals fraction digits.
MaxDecimals == 4
Decimal(r) == Proper(r) /\ IntPow(10, MaxDecimals) % RDen(r) = 0 /\ AbsInt(RNum(r)) < IntPow(10, MaxDecimals)

RECURSIVE Reparseable(_)
Reparseable(e) ==
  CASE e.k = "Symbol" -> TRUE
    [] e.k = "Value" ->
         (CASE e.v.t = "Real" -> Decimal(e.v.r)
            [] e.v.t = "Int" -> AbsInt(e.v.n) < IntPow(10, MaxDecimals)
            [] OTHER -> FALSE)
    [] e.k = "Unary" -> Reparseable(e.expr)
    [] e.k = "Binary" -> Reparseable(e.lhs) /\ Reparseable(e.rhs)

\* x = PySymbolExpr.Expression(str(x)): the last call of a session.  A panic
\* of the parser leaves x as it was.
Reparsed(out) ==
  /\ last.op \notin Final
  /\ Reparseable(x)
  /\ IF out = Panic THEN TRUE ELSE InModel(out)
  /\ x' = IF out = Panic THEN x ELSE out
  /\ last' = Call("roundtrip", x, None, NoMaps, out)
  /\ UNCHANGED << y, nx, ny, nops >>

roundtrip == Reparsed(parse_expression(SymbolExpr_to_string(x)))

ParseNext ==
  \/ Expression
  \/ sign
  \/ roundtrip
  \/ __add__
  \/ __sub__
  \/ __mul__
  \/ __truediv__
  \/ __pow__
  \/ __neg__
  \/ abs

ParseSpec == Init /\ [][ParseNext]_vars

\* The history agrees with the objects: the latest call's result is stored.
TypeOK ==
  /\ nops \in 0..MaxOps
  /\ last.out \in { x, y, Panic }

\* --------------------------------------------------------------- claims

\* C1: simplification preserves value.  When x, built with the operators and
\* the unary functions from symbols and values, is bound by a map that binds
\* every symbol, eval(true) of the result is the number the same operators
\* give on the bound numbers, whenever that number is defined (no division
\* by zero on the way).
C1_BindEvalIsSubstitution ==
  (last.op = "bind" /\ DOMAIN last.maps = Names) =>
    \A m \in TotalMaps :
      Proper(nx[m]) =>
        LET v == SymbolExpr_eval(x, TRUE)
        IN /\ v # None
           /\ v.t # "Complex"
           /\ NumEq(Value_as_real(v), nx[m])

\* C2: addition renders the same in both orders: (x + y).to_string() equals
\* (y + x).to_string().
C2_AddCommutes ==
  last.op = "Add" =>
    SymbolExpr_to_string(last.out)
      = SymbolExpr_to_string(SymbolExpr_add(last.rhs, last.lhs))

\* C3: addition renders the same however it is grouped: ((x + y) + z).to_string()
\* equals (x + (y + z)).to_string(), z being either object or a leaf.
C3_AddAssociates ==
  last.op = "Add" =>
    \A z \in { x, y } \cup Leaves :
      SymbolExpr_to_string(SymbolExpr_add(last.out, z))
        = SymbolExpr_to_string(SymbolExpr_add(last.lhs, SymbolExpr_add(last.rhs, z)))

\* C4: x - x renders as "0" for every expression x.
C4_SubSelfIsZero ==
  (last.op = "Sub" /\ last.lhs = last.rhs) =>
    SymbolExpr_to_string(last.out) = << "0" >>

\* C5: x / x renders as "1" for every expression x.
C5_DivSelfIsOne ==
  (last.op = "Div" /\ last.lhs = last.rhs) =>
    SymbolExpr_to_string(last.out) = << "1" >>

\* C6: e / 1 is e itself, for every expression e.
C6_DivByOneIsSelf ==
  (last.op = "Div" /\ last.rhs.k = "Value" /\ Value_is_one(last.rhs.v)) =>
    last.out = last.lhs

\* C7: e / 0 is the value node real +infinity, for every expression e, a zero
\* e included.
C7_DivByZeroIsInf ==
  (last.op = "Div" /\ last.rhs.k = "Value" /\ Value_is_zero(last.rhs.v)) =>
    last.out = Value(VReal(PosInf))

\* C8: -(-x) is structurally the same tree as x, for every expression x the
\* constructors produce.
C8_NegNegIsSelf ==
  last.op = "Neg" => SymbolExpr_neg(last.out) = last.lhs

\* C9: under the engine's equality (0 + x) == x, (1 * x) == x and (0 * x) == 0,
\* for every expression x.
C9_Identities ==
  /\ (last.op = "Add" /\ last.lhs.k = "Value" /\ Value_is_zero(last.lhs.v)) =>
       SymbolExpr_eq(last.out, last.rhs)
  /\ (last.op = "Mul" /\ last.lhs.k = "Value" /\ Value_is_one(last.lhs.v)) =>
       SymbolExpr_eq(last.out, last.rhs)
  /\ (last.op = "Mul" /\ last.lhs.k = "Value" /\ Value_is_zero(last.lhs.v)) =>
       SymbolExpr_eq(last.out, last.lhs)

\* C10: bind is idempotent: bind(bind(e, m), m) is the same tree as bind(e, m),
\* for every expression e and every map m.
C10_BindIdempotent ==
  last.op = "bind" => SymbolExpr_bind(last.out, last.maps) = last.out


\* C11: binding every symbol of an expression yields a value node: when the
\* map of a bind holds every symbol, the result is a Value, neither a unary
\* nor a binary node.
C11_BindAllIsValue ==
  (last.op = "bind" /\ DOMAIN last.maps = Names) => last.out.k = "Value"


\* Value coefficients of like terms.
Coeffs == { VInt(1), VInt(2), VInt(3), VReal(<< 1, 2 >>) }

\* C12: like terms with value coefficients are collected: for values c, d and
\* the expression x, (c*x) + (d*x) renders as (c+d)*x and (c*x) - (d*x)
\* renders as (c-d)*x; with c = d = 1 this is x + x = 2*x.
C12_LikeTermsCollected ==
  \A c \in Coeffs, d \in Coeffs :
    LET cx == SymbolExpr_mul(Value(c), x)
        dx == SymbolExpr_mul(Value(d), x)
    IN /\ SymbolExpr_to_string(SymbolExpr_add(cx, dx))
            = SymbolExpr_to_string(SymbolExpr_mul(Value(Value_add(c, d)), x))
       /\ SymbolExpr_to_string(SymbolExpr_sub(cx, dx))
            = SymbolExpr_to_string(SymbolExpr_mul(Value(Value_sub(c, d)), x))


\* A quotient c/s of a value by a symbol.
IsQuotient(e) ==
  e.k = "Binary" /\ e.op = "Div" /\ e.lhs.k = "Value" /\ e.rhs.k = "Symbol"

\* C13: like-term collection of quotients keeps the quotient: (c/s) + (d/s)
\* is the quotient (c+d)/s and (c/s) - (d/s) is the quotient (c-d)/s, for
\* values c, d and a symbol s.
C13_QuotientsCollected ==
  ( /\ last.op \in { "Add", "Sub" }
    /\ IsQuotient(last.lhs)
    /\ IsQuotient(last.rhs)
    /\ last.lhs.rhs = last.rhs.rhs ) =>
    LET c == last.lhs.lhs.v
        d == last.rhs.lhs.v
        cd == IF last.op = "Add" THEN Value_add(c, d) ELSE Value_sub(c, d)
    IN SymbolExpr_to_string(last.out)
         = SymbolExpr_to_string(SymbolExpr_div(Value(cd), last.lhs.rhs))


\* C14: multiplication and division cancel: for distinct symbols s and t, in
\* either name order, (s/t) * t renders as s and (s*t) / t renders as s.
C14_MulDivCancel ==
  \A s \in Names, t \in Names :
    (s # t /\ last.rhs = Symbol(t)) =>
      /\ (last.op = "Mul" /\ last.lhs = SymbolExpr_div(Symbol(s), Symbol(t))) =>
           SymbolExpr_to_string(last.out) = s
      /\ (last.op = "Div" /\ last.lhs = SymbolExpr_mul(Symbol(s), Symbol(t))) =>
           SymbolExpr_to_string(last.out) = s


\* (a/b) * b has been computed and renders as a.
C14_Witness ==
  /\ last.op = "Mul"
  /\ last.lhs = SymbolExpr_div(Symbol(<< "a" >>), Symbol(<< "b" >>))
  /\ last.rhs = Symbol(<< "b" >>)
  /\ SymbolExpr_to_string(last.out) = << "a" >>


\* The name of a third symbol, after every name of Names.
ThirdName == << "c" >>

\* C15: multiplication renders the same however it is grouped: for symbols
\* x, y, z of three different names, in every name order, ((x * y) * z)
\* renders as (x * (y * z)).
C15_MulAssociates ==
  ( /\ last.op = "Mul"
    /\ last.lhs.k = "Symbol"
    /\ last.rhs.k = "Symbol"
    /\ last.lhs.name # last.rhs.name ) =>
    LET z == Symbol(ThirdName)
    IN SymbolExpr_to_string(SymbolExpr_mul(last.out, z))
         = SymbolExpr_to_string(SymbolExpr_mul(last.lhs, SymbolExpr_mul(last.rhs, z)))


\* C16: the power rule with its chain factor: when only the base u of
\* pow(u, v) holds the symbol p, the derivative with respect to p is
\* v * u^(v-1) * du, du being the derivative of u.  The two sides are
\* compared as numbers at every point where the rule gives one.
C16_PowerRule ==
  ( /\ last.op = "derivative"
    /\ last.lhs.k = "Binary"
    /\ last.lhs.op = "Pow"
    /\ SymbolExpr_has_symbol(last.lhs.lhs, last.rhs.name)
    /\ ~SymbolExpr_has_symbol(last.lhs.rhs, last.rhs.name) ) =>
    LET u == last.lhs.lhs
        v == last.lhs.rhs
        du == SymbolExpr_derivative(u, last.rhs)
    IN \A m \in EvalMaps :
         LET nu == NumOf(u, m)
             nv == NumOf(v, m)
             want == NumBinary("Mul",
                       NumBinary("Mul", nv,
                         NumBinary("Pow", nu, NumBinary("Sub", nv, << 1, 1 >>))),
                       NumOf(du, m))
         IN Proper(want) => NumEq(NumOf(last.out, m), want)

\* The derivative f'(u) * du of the unary function op at the number u, du
\* being the number of the derivative of its operand.
ChainRule(op, u, du) ==
  CASE op = "Sin" -> NumBinary("Mul", NumUnary("Cos", u), du)
    [] op = "Cos" -> NumBinary("Mul", NumUnary("Neg", NumUnary("Sin", u)), du)
    [] op = "Asin" ->
         NumBinary("Div", du,
           NumBinary("Pow", NumBinary("Sub", << 1, 1 >>, NumBinary("Mul", u, u)), << 1, 2 >>))
    [] op = "Tan" ->
         NumBinary("Div", du, NumBinary("Mul", NumUnary("Cos", u), NumUnary("Cos", u)))
    [] op = "Log" -> NumBinary("Div", du, u)
    [] op = "Exp" -> NumBinary("Mul", NumUnary("Exp", u), du)
    [] op = "Abs" -> NumBinary("Div", NumBinary("Mul", u, du), NumUnary("Abs", u))
    [] op = "Sign" -> NumUnary("Sign", du)
    [] op = "Neg" -> NumUnary("Neg", du)
    [] OTHER -> NaN

\* C17: the chain rule for unary functions: the derivative of f(u) with
\* respect to p is f'(u) * du, f' taken from the table cos -> -sin,
\* sin -> cos, asin -> 1/sqrt(1-u^2), tan -> 1/cos^2, log -> 1/u, exp -> exp,
\* abs -> u*du/|u|, sign -> sign(du), neg -> -du; the derivative of asin(u)
\* divides du by (1 - u*u)**0.5.  The two sides are compared as numbers at
\* every point where the rule gives one.
C17_ChainRule ==
  (last.op = "derivative" /\ last.lhs.k = "Unary") =>
    LET u == last.lhs.expr
        du == SymbolExpr_derivative(u, last.rhs)
    IN \A m \in EvalMaps :
         LET want == ChainRule(last.lhs.op, NumOf(u, m), NumOf(du, m))
         IN Proper(want) => NumEq(NumOf(last.out, m), want)


\* C18: pow binds tighter than mul and div.  For all operands a, b, c the
\* text "a*b**c" parses to a * (b ** c) and "a/b**c" to a / (b ** c).
C18_PowBindsTighter ==
  \A a \in OperandTexts, b \in OperandTexts, c \in OperandTexts :
    LET power == SymbolExpr_pow(parse_expression(b), parse_expression(c))
    IN /\ (last.op = "Expression" /\ last.lhs = ChainText(a, << "*" >>, b, << "*", "*" >>, c))
            => last.out = SymbolExpr_mul(parse_expression(a), power)
       /\ (last.op = "Expression" /\ last.lhs = ChainText(a, << "/" >>, b, << "*", "*" >>, c))
            => last.out = SymbolExpr_div(parse_expression(a), power)

\* No symbol of the session occurs in e.
Closed(e) == \A n \in Names : ~SymbolExpr_has_symbol(e, n)

\* C19: render/parse round trip.  For every expression x with no free
\* symbols that the constructors produce (unary nodes such as sign(v) and
\* negated values that were not folded included), parsing the rendered
\* string of x succeeds and gives an expression of the same value as x.
C19_RoundTrip ==
  (last.op = "roundtrip" /\ Closed(last.lhs)) =>
    /\ last.out # Panic
    /\ \A m \in TotalMaps :
         Proper(NumOf(last.lhs, m)) => NumEq(NumOf(last.out, m), NumOf(last.lhs, m))

\* C20: the parser accepts the function call name(arg) for each of the ten
\* named unaries (abs, sin, cos, tan, asin, acos, atan, exp, log, sign),
\* and fails fatally, with no expression returned, for any other function
\* name and for any input it does not consume to the end.
C20_FunctionCalls ==
  \A f \in FunctionNames, arg \in ArgumentTexts, t \in Trailers :
    (last.op = "Expression" /\ last.lhs = FunctionCallText(f, arg, t)) =>
      IF t = << >> /\ \E op \in RenderedUnaries : UnaryName(op) = f
      THEN /\ last.out # Panic
           /\ last.out = Unary(CHOOSE op \in RenderedUnaries : UnaryName(op) = f,
                               parse_expression(arg))
      ELSE last.out = Panic

C22_IntPowKeepsKind ==
  ( /\ x.k = "Value" /\ x.v.t = "Int"
    /\ y.k = "Value" /\ y.v.t = "Int"
    /\ PowFits(x.v.n, y.v.n) ) =>
    LET r == SymbolExpr_pow(x, y)
    IN /\ r.k = "Value"
       /\ r.v.t = (IF y.v.n >= 0 THEN "Int" ELSE "Real")

\* C23: constant folding.  For all values a and b and every binary operator
\* among +, -, *, / and pow, a op b is a Value node, never a unary or a
\* binary node, a or b being zero included.
C23_ValuesFold ==
  ( /\ last.op \in { "Add", "Sub", "Mul", "Div", "Pow" }
    /\ last.lhs.k = "Value"
    /\ last.rhs.k = "Value" ) => last.out.k = "Value"

\* A tree in which no add or sub node has a negation or a negative value as
\* its right operand, and no negation is applied to a negation.
RECURSIVE NegNormal(_)
NegNormal(e) ==
  CASE e.k = "Unary" ->
         /\ ~(e.op = "Neg" /\ e.expr.k = "Unary" /\ e.expr.op = "Neg")
         /\ NegNormal(e.expr)
    [] e.k = "Binary" ->
         /\ e.op \in { "Add", "Sub" } =>
              /\ ~(e.rhs.k = "Unary" /\ e.rhs.op = "Neg")
              /\ ~(e.rhs.k = "Value" /\ Value_is_negative(e.rhs.v))
         /\ NegNormal(e.lhs)
         /\ NegNormal(e.rhs)
    [] OTHER -> TRUE

\* C24: negated right operands are normalized.  In every tree the operators
\* + and - return, no add or sub node has a right operand that is a unary
\* negation or a negative value, and no node is a negation of a negation.
C24_NegatedRightNormalized ==
  last.op \in { "Add", "Sub" } => NegNormal(last.out)

\* c*x for a value c and a symbol x, as mul_opt builds it.
Multiple(e) ==
  e.k = "Binary" /\ e.op = "Mul" /\ e.lhs.k = "Value" /\ e.rhs.k = "Symbol"

\* C25: a bare term is collected with its multiple.  For every symbol x and
\* value c, x + c*x and c*x + x give the single product (1+c)*x, and
\* x - c*x gives the single product (1-c)*x.
C25_BareTermCollected ==
  /\ ( /\ last.op = "Add"
       /\ Multiple(last.lhs)
       /\ last.rhs = last.lhs.rhs )
     => last.out = _mul(Value(Value_add(VInt(1), last.lhs.lhs.v)), last.rhs)
  /\ ( /\ last.op = "Add"
       /\ Multiple(last.rhs)
       /\ last.lhs = last.rhs.rhs )
     => last.out = _mul(Value(Value_add(VInt(1), last.rhs.lhs.v)), last.lhs)
  /\ ( /\ last.op = "Sub"
       /\ Multiple(last.rhs)
       /\ last.lhs = last.rhs.rhs )
     => last.out = _mul(Value(Value_sub(VInt(1), last.rhs.lhs.v)), last.lhs)

\* The ordered pairs of operands the comparator is asked about: the two
\* objects of the session, either way round.
OperandPairs == { << x, y >>, << y, x >> }

KindRank(e) ==
  CASE e.k = "Value" -> 0
    [] e.k = "Symbol" -> 1
    [] e.k = "Unary" -> 2
    [] e.k = "Binary" -> 3

\* The operand under the unary nodes of e.
RECURSIVE Inner(_)
Inner(e) == IF e.k = "Unary" THEN Inner(e.expr) ELSE e

\* C26: canonical ordering by node kind.  Under the operand comparator every
\* value node is less than every symbol, every symbol is less than every
\* unary node and every unary node is less than every binary node, whatever
\* their contents.
C26_KindOrder ==
  \A p \in OperandPairs :
    KindRank(p[1]) < KindRank(p[2]) =>
      SymbolExpr_partial_cmp(p[1], p[2]) = "Less"

\* C26, amended: every value node is less than every symbol, unary node and
\* binary node, and every symbol is less than every binary node; a unary
\* node stands for the operand under it: a symbol compares with a unary node
\* as it compares with that operand, and a unary node compares with a binary
\* node as that operand does.
C26_KindOrderThroughUnary ==
  \A p \in OperandPairs :
    /\ (p[1].k = "Value" /\ p[2].k # "Value") =>
         SymbolExpr_partial_cmp(p[1], p[2]) = "Less"
    /\ (p[1].k = "Symbol" /\ p[2].k = "Binary") =>
         SymbolExpr_partial_cmp(p[1], p[2]) = "Less"
    /\ (p[1].k = "Symbol" /\ p[2].k = "Unary") =>
         SymbolExpr_partial_cmp(p[1], p[2]) = SymbolExpr_partial_cmp(p[1], Inner(p[2]))
    /\ (p[1].k = "Unary" /\ p[2].k = "Binary") =>
         SymbolExpr_partial_cmp(p[1], p[2]) = SymbolExpr_partial_cmp(Inner(p[1]), p[2])

\* A symbol that the comparator puts above a unary node, next to a binary
\* node met by a unary one.
C26_Witness ==
  /\ x.k = "Symbol"
  /\ y.k = "Unary"
  /\ y.expr.k = "Symbol"
  /\ SymbolExpr_partial_cmp(x, y) = "Greater"

\* C30: the operand comparator is antisymmetric.  For all expressions a and
\* b, a < b holds if and only if b > a holds, and a compares Equal to b if
\* and only if b compares Equal to a.
C30_Antisymmetric ==
  /\ SymbolExpr_partial_cmp(x, y) = "Less" <=> SymbolExpr_partial_cmp(y, x) = "Greater"
  /\ SymbolExpr_partial_cmp(y, x) = "Less" <=> SymbolExpr_partial_cmp(x, y) = "Greater"
  /\ SymbolExpr_partial_cmp(x, y) = "Equal" <=> SymbolExpr_partial_cmp(y, x) = "Equal"

\* C27: equality is reflexive.  For every expression e the constructors can
\* produce (symbols, values, unary-function nodes, add, sub, mul, div and pow
\* nodes), e == e is true.
C27_EqReflexive == SymbolExpr_eq(x, x) /\ SymbolExpr_eq(y, y)

\* C28: expansion preserves value.  For every expression e and every map m
\* binding all symbols of e with no division by zero, expand(e) evaluates
\* under m to the value of e; consequently, whenever a == b holds, a and b
\* evaluate to the same value under every such binding.
C28_ExpandPreservesValue ==
  \A m \in TotalMaps :
    /\ Proper(NumOf(x, m)) =>
         NumEq(NumOf(SymbolExpr_expand(x), m), NumOf(x, m))
    /\ (SymbolExpr_eq(x, y) /\ Proper(NumOf(x, m)) /\ Proper(NumOf(y, m))) =>
         NumEq(NumOf(x, m), NumOf(y, m))

\* C29: the complex accessor agrees with the real and imaginary accessors.
\* For each object's expression whose evaluation succeeds, complex(e) is the
\* complex number with real part real(e) and imaginary part imag(e), so an
\* expression evaluating to the real or integer value r gives r + 0i.
C29_ComplexAgrees ==
  \A e \in { x, y } :
    SymbolExpr_eval(e, TRUE) # None =>
      \/ SymbolExpr_complex(e) = Cx(SymbolExpr_real(e), SymbolExpr_imag(e))
      \/ /\ NumEq(SymbolExpr_complex(e).re, SymbolExpr_real(e))
         /\ NumEq(SymbolExpr_complex(e).im, SymbolExpr_imag(e))

=========================================================================
